---- MODULE Spec2Model ----
(***************************************************************************)
(* Model of src/bot.py: the per-user session state machine of the text    *)
(* role-playing bot (Player aggregate, session mode flags kept in          *)
(* context.user_data, combat engine, rewards, shop and inventory) and the  *)
(* update dispatcher that main() configures.                               *)
(*                                                                         *)
(* Handlers are operators from a session value                             *)
(*     [p: Player, ud: user_data, out: replies, nap: suspended lose_battle]*)
(* to the session value they leave behind (handlers that draw random       *)
(* numbers yield the set of possible results).  The actions at the end     *)
(* apply a whole handler to one inbound update.                            *)
(***************************************************************************)
EXTENDS Integers, Sequences, FiniteSets, TLC

(***************************************************************************)
(* Bounds of the model.                                                    *)
(***************************************************************************)
MaxKills == 2       \* victories per player
MaxInv == 2         \* items carried
MaxEffects == 2     \* active temporary effects
MaxOverheal == 3    \* stored health above the maximum health
MaxQueue == 1       \* updates waiting in the dispatcher's queue
MaxClock == 1       \* clock readings, in steps of ClockStep seconds
MaxWait == 2        \* clock readings while the fatigue methods are exercised
MaxAttack == 6      \* base attack while the damage function is exercised

NONE == "none"

Min(a, b) == IF a < b THEN a ELSE b
Max(a, b) == IF a > b THEN a ELSE b

Has(r, k) == k \in DOMAIN r
Get(r, k, d) == IF k \in DOMAIN r THEN r[k] ELSE d
Put(r, k, v) == [x \in DOMAIN r \cup {k} |-> IF x = k THEN v ELSE r[x]]

RECURSIVE SeqSum(_)
SeqSum(q) == IF q = <<>> THEN 0 ELSE Head(q) + SeqSum(Tail(q))

InSeq(x, q) == \E i \in 1..Len(q) : q[i] = x
Count(x, q) == Cardinality({i \in 1..Len(q) : q[i] = x})
FirstIndex(x, q) == CHOOSE i \in 1..Len(q) : q[i] = x /\ \A j \in 1..(i - 1) : q[j] # x
\* list.remove(x): drops the first occurrence
Remove(x, q) ==
    IF ~InSeq(x, q) THEN q
    ELSE LET i == FirstIndex(x, q)
         IN SubSeq(q, 1, i - 1) \o SubSeq(q, i + 1, Len(q))
SelectSeqBy(q, Keep(_)) == SelectSeq(q, Keep)

(***************************************************************************)
(* Content tables (data/*.json, loaded once at import).  The JSON files    *)
(* are not part of the source; these are small tables of the documented    *)
(* shape.  Multipliers and resistances are in tenths (15 is 1.5).          *)
(***************************************************************************)
StatNames == {"health", "attack", "defense"}
ZeroStats == [health |-> 0, attack |-> 0, defense |-> 0]

CLASSES ==
    [warrior |->
        [name |-> "Warrior",
         base_stats |-> [health |-> 10, attack |-> 3, defense |-> 2],
         starting_abilities |-> <<"Mend">>,
         unlocks |-> [lvl \in {2} |-> <<"Strike">>]]]
ClassIds == DOMAIN CLASSES

ITEMS ==
    [potion |-> [name |-> "Potion", type |-> "consumable", price |-> 10,
                 stats |-> [health |-> 5]],
     ring   |-> [name |-> "Ring", type |-> "artifact", price |-> 20,
                 stats |-> [health |-> 5]],
     amulet |-> [name |-> "Amulet", type |-> "artifact", price |-> 20,
                 stats |-> [attack |-> 1]],
     tonic  |-> [name |-> "Tonic", type |-> "consumable", price |-> 60,
                 buffs |-> [attack |-> 1, duration |-> 2]]]
ItemIds == DOMAIN ITEMS
ItemNames == {ITEMS[i].name : i \in ItemIds}

ENEMIES ==
    [wolf |-> [name |-> "Wolf", image |-> "wolf.png", health |-> 4,
               attack |-> 5, experience |-> 100],
     golem |-> [name |-> "Golem", image |-> "golem.png", health |-> 2,
                attack |-> 3, experience |-> 10,
                resistances |-> [physical |-> 10]]]
BOSSES ==
    [ogre |-> [name |-> "Ogre", image |-> "ogre.png", health |-> 3,
               attack |-> 13, experience |-> 120, is_boss |-> TRUE,
               phases |-> <<[name |-> "Enraged Ogre", image |-> "ogre2.png",
                             health |-> 2, attack |-> 14,
                             resistances |-> [physical |-> 0]]>>]]
EnemyIds == DOMAIN ENEMIES \cup DOMAIN BOSSES
\* ENEMIES.get(enemy_id) or BOSSES.get(enemy_id)
EnemyOrBoss(enemy_id) ==
    IF enemy_id \in DOMAIN ENEMIES THEN ENEMIES[enemy_id] ELSE BOSSES[enemy_id]

ABILITIES ==
    [Mend   |-> [heal_flat |-> 4, max_uses |-> 1],
     Strike |-> [layers |-> <<[mult |-> 15, type |-> "physical"]>>,
                 max_uses |-> 1],
     Venom  |-> [dot |-> [name |-> "Poison", type |-> "poison", mult |-> 5,
                          duration |-> 3],
                 max_uses |-> 2],
     Guard  |-> [defense_buff |-> 1, max_uses |-> 1]]
AbilityNames == DOMAIN ABILITIES

QUESTS ==
    [first_steps |-> [name |-> "First steps", objectives |-> [wolf |-> 1],
                      rewards |-> [experience |-> 10, gold |-> 5]],
     wolf_hunt |-> [name |-> "Wolf hunt", objectives |-> [wolf |-> 1],
                    rewards |-> [experience |-> 300, gold |-> 10]]]
QuestIds == DOMAIN QUESTS

STORY ==
    [village_storyline |->
        <<[id |-> "s1", type |-> "dialogue", next_scene |-> "s2"],
          [id |-> "s2", type |-> "battle", enemy |-> "wolf", next_scene |-> "s3"],
          [id |-> "s3", type |-> "location", target |-> "village_square",
           rewards |-> [items |-> <<"potion">>]]>>,
     forest_storyline |->
        <<[id |-> "f1", type |-> "dialogue", next_scene |-> "f2"],
          [id |-> "f2", type |-> "battle", enemy |-> "wolf"]>>]
StoryCities == {"village", "forest"}
StoryKey(city) ==
    IF city = "village" THEN "village_storyline"
    ELSE IF city = "forest" THEN "forest_storyline" ELSE NONE

RANDOM_EVENTS ==
    [village_small_events |->
        <<[id |-> "ambush", type |-> "chain", fatigue_cost |-> 50,
           scenes |-> <<[type |-> "dialogue"],
                        [type |-> "reward", rewards |-> [gold |-> 5]],
                        [type |-> "battle", enemy |-> "wolf"]>>]>>,
     village_medium_events |->
        <<[id |-> "chest", type |-> "reward", fatigue_cost |-> 50,
           rewards |-> [gold |-> 5]]>>]
\* city.replace("_square", "").replace("_city", "")
CityKey(city) == IF city = "village_square" THEN "village" ELSE city
EventIds == {"ambush", "chest"}
EventById(id) ==
    IF id = "ambush" THEN RANDOM_EVENTS.village_small_events[1]
    ELSE RANDOM_EVENTS.village_medium_events[1]

LOCATIONS ==
    [village_square |->
        [name |-> "Village", is_city |-> TRUE,
         actions |-> <<[text |-> "GoForest", type |-> "location", target |-> "forest"],
                       [text |-> "Shop", type |-> "shop", target |-> NONE,
                        shop_items |-> <<"potion", "ring", "amulet">>],
                       [text |-> "Story", type |-> "story", target |-> "village"],
                       [text |-> "Events", type |-> "random_events",
                        target |-> "village_square"],
                       [text |-> "Apothecary", type |-> "shop", target |-> NONE,
                        shop_items |-> <<"tonic">>]>>],
     forest |->
        [name |-> "Forest", is_city |-> FALSE,
         actions |-> <<[text |-> "FightWolf", type |-> "battle", target |-> "wolf"],
                       [text |-> "FightOgre", type |-> "battle", target |-> "ogre"],
                       [text |-> "GoVillage", type |-> "location",
                        target |-> "village_square"],
                       [text |-> "FightGolem", type |-> "battle", target |-> "golem"],
                       [text |-> "TakeQuest", type |-> "quest",
                        target |-> "wolf_hunt"],
                       [text |-> "Trail", type |-> "story", target |-> "forest"]>>]]
LocationIds == DOMAIN LOCATIONS

(***************************************************************************)
(* Inbound text.  A label is the text of a keyboard button; the labels     *)
(* the code builds with f-strings carry the fields it formats into them:   *)
(* a the name shown, n the count shown, e whether " (E)" is appended.      *)
(***************************************************************************)
Lbl(k) == [k |-> k, a |-> "", n |-> 0, e |-> FALSE]
LblA(k, a) == [k |-> k, a |-> a, n |-> 0, e |-> FALSE]
LblN(k, a, n, e) == [k |-> k, a |-> a, n |-> n, e |-> e]

BACK == Lbl("Back")                    \* "<- Назад"
BACK_TO_CLASSES == Lbl("BackToClasses")
CHOOSE_CLASS == Lbl("ChooseClass")
CONTINUE == Lbl("Continue")
RETURN_TO_TOWN == Lbl("ReturnToTown")  \* "Вернуться в город"
MORE_EVENTS == Lbl("MoreEvents")
ATTACK == Lbl("Attack")
POTIONS == Lbl("Potions")
FLEE == Lbl("Flee")
USE_ITEM == Lbl("Use")
EQUIP == Lbl("Equip")
UNEQUIP == Lbl("Unequip")
CONFIRM_BUY == Lbl("ConfirmBuy")
CONFIRM_SELL == Lbl("ConfirmSell")
SELL_ITEMS == Lbl("SellItems")
STATS == Lbl("Stats")
INVENTORY == Lbl("Inventory")
TELEPORT == Lbl("Teleport")
TO_CITY == Lbl("ToCity")               \* "В город"
OTHER_TEXT == Lbl("Other")             \* a text no handler knows
ViewClassLabel(c_name) == LblA("ViewClass", c_name)
AbilityLabel(ability) == LblA("Ability", ability)
ActionLabel(text) == LblA("Action", text)
CityLabel(city_name) == LblA("City", city_name)
\* f"🍺 {item['name']} ({count})"
BattlePotionLabel(name, count) == LblN("BattlePotion", name, count, FALSE)
\* f"{item['name']} x{count}{status}"
InventoryLabel(name, count, equipped) == LblN("InvItem", name, count, equipped)
\* f"{item['name']} ({item['price']}💰)"
ShopLabel(name, price) == LblN("ShopItem", name, price, FALSE)
\* f"{item['name']} ({sell_price}💰) x{count}"
SellLabel(name, sell_price, count) == LblN("SellItem", name, sell_price * 100 + count, FALSE)
\* text.startswith(item name): true of the labels that begin with the name
StartsWithName(text, name) ==
    text.k \in {"InvItem", "ShopItem", "SellItem"} /\ text.a = name

ItemByName(name) ==
    IF \E i \in ItemIds : ITEMS[i].name = name
    THEN CHOOSE i \in ItemIds : ITEMS[i].name = name
    ELSE NONE
ClassByName(name) ==
    IF \E c \in ClassIds : CLASSES[c].name = name
    THEN CHOOSE c \in ClassIds : CLASSES[c].name = name
    ELSE NONE

(***************************************************************************)
(* Player                                                                  *)
(***************************************************************************)
Player(user_id, now) ==
    [user_id |-> user_id,
     class_name |-> NONE,
     base_stats |-> ZeroStats,
     inventory |-> <<>>,
     equipped_artifacts |-> <<>>,
     artifact_slots |-> 1,
     gold |-> 50,
     active_effects |-> <<>>,
     active_quests |-> <<>>,
     completed_quests |-> <<>>,
     location |-> "class_selection",
     level |-> 1,
     experience |-> 0,
     kill_count |-> [e \in EnemyIds |-> 0],
     visited_locations |-> {},
     defeated_bosses |-> {},
     current_city |-> "village_square",
     fatigue |-> 100,
     last_fatigue_update |-> now,
     story_progress |-> [c \in StoryCities |-> NONE],
     unlocked_cities |-> {"village_square"},
     last_location |-> "village_square"]

UpdateNoCap(p, now) ==
    LET passed == now - p.last_fatigue_update
        gain == (passed * 100) \div 3600
    IN IF gain > 0
       THEN [p EXCEPT !.fatigue = @ + gain, !.last_fatigue_update = now]
       ELSE p

\* gain = passed * (100 / 3600); clock readings are multiples of 36 s
update_fatigue(p, now) ==
    LET passed == now - p.last_fatigue_update
        gain == (passed * 100) \div 3600
    IN IF gain > 0
       THEN [p EXCEPT !.fatigue = Min(100, @ + gain), !.last_fatigue_update = now]
       ELSE p

\* the Player after the call and the value returned
can_do_event(p, cost, now) ==
    LET p1 == update_fatigue(p, now)
    IN [p |-> p1, result |-> p1.fatigue >= cost]

SpendNoFloor(p, amount, now) ==
    LET p1 == update_fatigue(p, now)
    IN [p1 EXCEPT !.fatigue = @ - amount, !.last_fatigue_update = now]

spend_fatigue(p, amount, now) ==
    LET p1 == update_fatigue(p, now)
    IN [p1 EXCEPT !.fatigue = Max(0, @ - amount), !.last_fatigue_update = now]

RECURSIVE AddStats(_, _)
\* stats[stat] = stats.get(stat, 0) + value, for each record of the list
AddStats(stats, bonuses) ==
    IF bonuses = <<>> THEN stats
    ELSE LET b == Head(bonuses)
         IN AddStats([k \in DOMAIN stats \cup DOMAIN b |->
                          Get(stats, k, 0) + Get(b, k, 0)],
                     Tail(bonuses))

get_total_stats(p) ==
    LET items == [i \in 1..Len(p.equipped_artifacts) |->
                     Get(ITEMS[p.equipped_artifacts[i]], "stats", [x \in {} |-> 0])]
        effects == [i \in 1..Len(p.active_effects) |-> p.active_effects[i].stats]
    IN AddStats(AddStats(p.base_stats, items), effects)

add_effect(p, name, stats, duration) ==
    [p EXCEPT !.active_effects =
        Append(@, [name |-> name, stats |-> stats, duration |-> duration])]

TickNothing(p) == p
Alive(effect) == effect.duration > 0
\* every duration loses 1; the effects at <= 0 are removed
tick_effects(p) ==
    LET ticked == [i \in 1..Len(p.active_effects) |->
                      [p.active_effects[i] EXCEPT !.duration = @ - 1]]
    IN [p EXCEPT !.active_effects = SelectSeq(ticked, Alive)]
tick_expired(p) ==
    \E i \in 1..Len(p.active_effects) : p.active_effects[i].duration - 1 <= 0

get_max_health(p) ==
    IF p.class_name \notin ClassIds THEN 100
    ELSE CLASSES[p.class_name].base_stats.health + (p.level - 1) * 10

EquipNoChecks(p, item_id) ==
    [ok |-> TRUE, msg |-> "equipped",
     p |-> [p EXCEPT !.equipped_artifacts = Append(@, item_id)]]
EquipMovesItem(p, item_id) ==
    [ok |-> TRUE, msg |-> "equipped",
     p |-> [p EXCEPT !.equipped_artifacts = Append(@, item_id),
                     !.inventory = Remove(item_id, @)]]
EquipAppend(p, item_id) ==
    [ok |-> TRUE, msg |-> "equipped",
     p |-> [p EXCEPT !.equipped_artifacts = Append(@, item_id)]]

equip_artifact(p, item_id) ==
    IF ~InSeq(item_id, p.inventory) THEN [ok |-> FALSE, msg |-> "not_owned", p |-> p]
    ELSE IF InSeq(item_id, p.equipped_artifacts)
    THEN [ok |-> FALSE, msg |-> "already_equipped", p |-> p]
    ELSE IF item_id \notin ItemIds \/ ITEMS[item_id].type # "artifact"
    THEN [ok |-> FALSE, msg |-> "not_artifact", p |-> p]
    ELSE IF Len(p.equipped_artifacts) >= p.artifact_slots
    THEN [ok |-> FALSE, msg |-> "no_free_slot", p |-> p]
    ELSE EquipAppend(p, item_id)

unequip_artifact(p, item_id) ==
    IF InSeq(item_id, p.equipped_artifacts)
    THEN [ok |-> TRUE, msg |-> "unequipped",
          p |-> [p EXCEPT !.equipped_artifacts = Remove(item_id, @)]]
    ELSE [ok |-> FALSE, msg |-> "not_equipped", p |-> p]

unlock_city(p, city_id) == [p EXCEPT !.unlocked_cities = @ \cup {city_id}]

has_completed_story(p, city) ==
    LET key == StoryKey(city)
    IN IF key = NONE THEN FALSE
       ELSE LET storyline == STORY[key]
            IN p.story_progress[city] = storyline[Len(storyline)].id

(***************************************************************************)
(* Session value passed through the handlers of one update.                *)
(*   p    the Player of player_states[user_id]                             *)
(*   ud   context.user_data of the user (an absent key, None and False     *)
(*        are one value: the code only tests the keys for truth)           *)
(*   out  what the handler sent to the chat, in order                      *)
(*   nap  <<target>> while lose_battle is suspended in asyncio.sleep(15),  *)
(*        target being its local last_location_before_battle               *)
(*   now  time.time() while the update is handled                          *)
(***************************************************************************)
EmptyUserData ==
    [in_battle |-> FALSE, in_story |-> FALSE, in_shop |-> FALSE,
     in_shop_sell |-> FALSE, in_inventory |-> FALSE, in_city_teleport |-> FALSE,
     viewing_item |-> NONE, in_random_event |-> FALSE,
     current_event_chain |-> <<>>, battle_potion_menu |-> FALSE,
     shop_confirm_buy |-> NONE, shop_confirm_sell |-> NONE,
     battle |-> <<>>, in_battle_from_event |-> FALSE, current_story |-> <<>>,
     current_shop_items |-> <<>>, selected_class |-> NONE,
     current_random_event |-> NONE]

Say(s, what) == [s EXCEPT !.out = Append(@, what)]

show_class_selection(s) ==
    Say([s EXCEPT !.p.location = "class_selection", !.ud.selected_class = NONE],
        "class_menu")

\* the keys show_location deletes from user_data
ClearModeKeys(ud) ==
    [ud EXCEPT !.in_battle = FALSE, !.in_story = FALSE, !.in_shop = FALSE,
               !.in_shop_sell = FALSE, !.in_inventory = FALSE,
               !.in_city_teleport = FALSE, !.viewing_item = NONE,
               !.in_random_event = FALSE, !.current_event_chain = <<>>,
               !.battle_potion_menu = FALSE, !.shop_confirm_buy = NONE,
               !.shop_confirm_sell = NONE]

ShowAndRest(s, loc_id) ==
    LET loc == IF loc_id \in LocationIds THEN loc_id
               ELSE IF s.p.current_city \in LocationIds THEN s.p.current_city
               ELSE "village_square"
        p1 == [s.p EXCEPT !.location = loc,
                          !.last_location = loc,
                          !.visited_locations = @ \cup {loc},
                          !.current_city = IF LOCATIONS[loc].is_city THEN loc ELSE @,
                          !.base_stats.health = @ + 1]
    IN Say([s EXCEPT !.p = p1, !.ud = ClearModeKeys(s.ud)], "location")

show_location(s, loc_id) ==
    LET loc == IF loc_id \in LocationIds THEN loc_id
               ELSE IF s.p.current_city \in LocationIds THEN s.p.current_city
               ELSE "village_square"
        p1 == [s.p EXCEPT !.location = loc,
                          !.last_location = loc,
                          !.visited_locations = @ \cup {loc},
                          !.current_city = IF LOCATIONS[loc].is_city THEN loc ELSE @]
    IN Say([s EXCEPT !.p = p1, !.ud = ClearModeKeys(s.ud)], "location")

\* the action buttons show_location puts on the keyboard
DisplayedActions(p, loc) ==
    {LOCATIONS[loc].actions[i].text : i \in
        {j \in 1..Len(LOCATIONS[loc].actions) :
            LET action == LOCATIONS[loc].actions[j]
            IN /\ ~(action.type = "story" /\ has_completed_story(p, action.target))
               /\ ~(action.target = "capital_city"
                    /\ "capital_city" \notin p.unlocked_cities)}}

start_quest(s, quest_id) ==
    IF quest_id \notin QuestIds THEN s
    ELSE IF ~InSeq(quest_id, s.p.active_quests) /\ ~InSeq(quest_id, s.p.completed_quests)
    THEN Say([s EXCEPT !.p.active_quests = Append(@, quest_id)], "new_quest")
    ELSE s

\* the two asyncio.sleep(0.5) of the intro are not modelled as steps: the
\* dispatcher runs no other handler meanwhile
start_intro_story(s) ==
    LET s1 == start_quest(Say(s, "intro"), "first_steps")
    IN show_location([s1 EXCEPT !.p.location = "village_square",
                                !.p.current_city = "village_square"],
                     "village_square")

apply_rewards(s, rewards) ==
    LET p1 == [s.p EXCEPT !.experience = @ + Get(rewards, "experience", 0),
                          !.gold = @ + Get(rewards, "gold", 0),
                          !.inventory = @ \o Get(rewards, "items", <<>>)]
    IN Say([s EXCEPT !.p = p1], "rewards")

\* the tables as load_json_file leaves them at startup
ContentTables == [CLASSES |-> CLASSES, ENEMIES |-> ENEMIES, BOSSES |-> BOSSES]
\* ENEMIES.get(enemy_id) or BOSSES.get(enemy_id), on the tables as they are now
EnemyIn(tables, enemy_id) ==
    IF enemy_id \in DOMAIN tables.ENEMIES THEN tables.ENEMIES[enemy_id]
    ELSE tables.BOSSES[enemy_id]
NoCopy(d) == [items |-> d, is_new |-> FALSE]
\* dict.copy(): a new dict that holds the same items
copy(d) == [items |-> d, is_new |-> TRUE]
\* The tables once a handler has written into the battle's enemy and into the
\* player's base_stats: a dict that is not a new object is the table's own entry.
TablesAfter(tables, p, ud) ==
    LET t1 == IF ud.battle # <<>> /\ ~copy(ud.battle[1].enemy).is_new
              THEN IF ud.battle[1].e_id \in DOMAIN tables.ENEMIES
                   THEN [tables EXCEPT !.ENEMIES[ud.battle[1].e_id] = ud.battle[1].enemy]
                   ELSE [tables EXCEPT !.BOSSES[ud.battle[1].e_id] = ud.battle[1].enemy]
              ELSE tables
    IN IF p.class_name \in DOMAIN tables.CLASSES /\ ~copy(p.base_stats).is_new
       THEN [t1 EXCEPT !.CLASSES[p.class_name].base_stats = p.base_stats]
       ELSE t1

start_battle(s, enemy_id) ==
    IF enemy_id \notin EnemyIds THEN s
    ELSE LET enemy == copy(EnemyIn(s.tables, enemy_id)).items
             stats == get_total_stats(s.p)
             b == [enemy |-> enemy,
                   e_hp |-> enemy.health,
                   p_hp |-> stats.health,
                   e_id |-> enemy_id,
                   phase |-> 1,
                   skill_uses |-> [a \in AbilityNames |-> 0],
                   active_dots |-> <<>>]
         IN Say([s EXCEPT !.ud.in_battle = TRUE, !.ud.battle = <<b>>], "battle_start")

SceneById(storyline, scene_id) ==
    SelectSeq(storyline, LAMBDA sc : sc.id = scene_id)

show_story_scene(s, city, scene_id) ==
    IF s.ud.current_story = <<>> THEN s
    ELSE LET found == SceneById(STORY[StoryKey(s.ud.current_story[1].city)], scene_id)
         IN IF found = <<>> THEN s
            ELSE LET scene == found[1]
                     s1 == [s EXCEPT !.ud.in_story = TRUE,
                                     !.ud.current_story[1].current_scene = scene_id]
                 IN CASE scene.type = "dialogue" -> Say(s1, "story_dialogue")
                      [] scene.type = "battle" ->
                            start_battle(Say(s1, "story_battle"), scene.enemy)
                      [] scene.type = "location" ->
                            LET s2 == IF Has(scene, "rewards")
                                      THEN apply_rewards(s1, scene.rewards) ELSE s1
                                s3 == IF Get(scene, "unlock_city", NONE) # NONE
                                      THEN Say([s2 EXCEPT !.p =
                                                   unlock_city(@, scene.unlock_city)],
                                               "city_unlocked")
                                      ELSE s2
                                s4 == [s3 EXCEPT !.p.story_progress[city] = scene_id,
                                                 !.ud.in_story = FALSE]
                            IN show_location(Say(s4, "story_text"), scene.target)
                      [] OTHER -> s1

start_story_line(s, city) ==
    IF StoryKey(city) = NONE THEN Say(s, "story_unavailable")
    ELSE LET storyline == STORY[StoryKey(city)]
             recorded == s.p.story_progress[city]
             current_scene_id == IF recorded = NONE THEN storyline[1].id ELSE recorded
             s1 == [s EXCEPT !.p.story_progress[city] = current_scene_id,
                             !.ud.current_story =
                                 <<[city |-> city, current_scene |-> current_scene_id]>>]
         IN show_story_scene(s1, city, current_scene_id)

handle_story_action(s, text) ==
    IF text = RETURN_TO_TOWN
    THEN show_location([s EXCEPT !.ud.in_story = FALSE], s.p.current_city)
    ELSE IF text = CONTINUE
    THEN LET story_data == s.ud.current_story[1]
             found == SceneById(STORY[StoryKey(story_data.city)], story_data.current_scene)
         IN IF found # <<>> /\ Get(found[1], "next_scene", NONE) # NONE
            THEN show_story_scene(
                    [s EXCEPT !.p.story_progress[story_data.city] = found[1].next_scene],
                    story_data.city, found[1].next_scene)
            ELSE s
    ELSE s

RECURSIVE continue_event_chain(_)
continue_event_chain(s) ==
    IF s.ud.current_event_chain = <<>> THEN s
    ELSE LET chain == s.ud.current_event_chain[1]
             scenes == chain.scenes
             idx == chain.index
         IN IF idx >= Len(scenes)
            THEN Say([s EXCEPT !.ud.current_event_chain = <<>>], "event_done")
            ELSE LET scene == scenes[idx + 1]
                     s1 == [s EXCEPT !.ud.current_event_chain[1].index = idx + 1]
                 IN CASE scene.type = "dialogue" -> Say(s1, "event_dialogue")
                      [] scene.type = "battle" ->
                            start_battle(
                                [Say(s1, "event_battle") EXCEPT
                                    !.ud.in_battle_from_event = TRUE],
                                scene.enemy)
                      [] scene.type = "reward" ->
                            continue_event_chain(
                                IF Has(scene, "rewards")
                                THEN apply_rewards(Say(s1, "event_text"), scene.rewards)
                                ELSE Say(s1, "event_text"))
                      [] OTHER -> s1

show_random_event(s, event) ==
    LET s1 == [s EXCEPT !.ud.in_random_event = TRUE,
                        !.ud.current_random_event = event.id]
    IN CASE event.type = "chain" ->
                continue_event_chain(
                    [s1 EXCEPT !.ud.current_event_chain =
                        <<[scenes |-> event.scenes, index |-> 0]>>])
         [] event.type = "reward" ->
                Say(IF Has(event, "rewards") THEN apply_rewards(s1, event.rewards)
                    ELSE s1,
                    "event_reward")
         [] OTHER -> s1

\* random.choice(available): one result per affordable event
start_random_event(s, city) ==
    LET s1 == [s EXCEPT !.ud.current_event_chain = <<>>,
                        !.ud.in_random_event = FALSE,
                        !.ud.in_battle_from_event = FALSE,
                        !.p = update_fatigue(@, s.now)]
        city_key == CityKey(city)
        small == IF city_key = "village" THEN RANDOM_EVENTS.village_small_events ELSE <<>>
        medium == IF city_key = "village" THEN RANDOM_EVENTS.village_medium_events ELSE <<>>
        all_events == small \o medium
        available == SelectSeq(all_events,
                               LAMBDA ev : s1.p.fatigue >= Get(ev, "fatigue_cost", 0))
    IN IF all_events = <<>> THEN {Say(s1, "nothing_here")}
       ELSE IF available = <<>> THEN {Say(s1, "too_tired")}
       ELSE {show_random_event(
                [s1 EXCEPT !.p = spend_fatigue(@, Get(available[i], "fatigue_cost", 0),
                                               s.now)],
                available[i]) : i \in 1..Len(available)}

handle_random_event_action(s, text) ==
    IF s.ud.current_event_chain # <<>> THEN {continue_event_chain(s)}
    ELSE IF text = RETURN_TO_TOWN THEN {show_location(s, s.p.current_city)}
    ELSE IF text = MORE_EVENTS THEN start_random_event(s, s.p.current_city)
    ELSE {s}

(***************************************************************************)
(* Combat                                                                  *)
(***************************************************************************)
\* int(x) of a non-negative quotient
RandInt(lo, hi) == lo..hi

DamageNoFloor(base_attack, multiplier, dmg_type, resistances) ==
    LET final_val == base_attack * multiplier * Max(0, 10 - Get(resistances, dmg_type, 0))
    IN RandInt((final_val * 8) \div 1000, (final_val * 12) \div 1000)

\* 1.0 - res_val in binary floating point: for 0.8 and 0.9 the difference is
\* just below 0.2 and 0.1, for the other tenths it is not below the decimal
\* value
FactorBelowDecimal(res_val) == res_val \in {8, 9}

\* int(final_val * 0.8): the whole part of the product; a product that is a
\* whole number in decimal comes out just below it when the factor did
FloatInt(final_val, res_val) ==
    IF FactorBelowDecimal(res_val) /\ final_val > 0 /\ (final_val * 8) % 1000 = 0
    THEN (final_val * 8) \div 1000 - 1
    ELSE (final_val * 8) \div 1000

\* The values calculate_single_layer_damage can return; multiplier and
\* resistances in tenths.
calculate_single_layer_damage(base_attack, multiplier, dmg_type, resistances) ==
    LET res_val == Get(resistances, dmg_type, 0)
        res_factor == Max(0, 10 - res_val)
        final_val == base_attack * multiplier * res_factor      \* in hundredths
        min_dmg == FloatInt(final_val, res_val)
        max_dmg == (final_val * 12) \div 1000
    IN {Max(1, x) : x \in RandInt(min_dmg, max_dmg)}

RECURSIVE LayerTotals(_, _, _)
\* the sums of one draw per layer
LayerTotals(layers, attack, enemy_res) ==
    IF layers = <<>> THEN {0}
    ELSE {d + t : d \in calculate_single_layer_damage(attack, Head(layers).mult,
                                                       Head(layers).type, enemy_res),
                  t \in LayerTotals(Tail(layers), attack, enemy_res)}

\* int(e_base_dmg * random.uniform(0.9, 1.1))
EnemyDamage(enemy_attack, defense) ==
    LET e_base_dmg == Max(1, enemy_attack - defense)
    IN ((e_base_dmg * 9) \div 10)..((e_base_dmg * 11) \div 10)

ResumeAtCity(p) == p.current_city
\* lose_battle's local last_location_before_battle
last_location_before_battle(p) ==
    IF p.last_location \in LocationIds THEN p.last_location ELSE "village_square"

\* lose_battle up to its asyncio.sleep(15)
lose_battle(s) ==
    LET target == last_location_before_battle(s.p)
        s1 == [Say(s, "defeat") EXCEPT !.ud.in_battle = FALSE,
                                       !.ud.in_battle_from_event = FALSE,
                                       !.ud.in_story = FALSE]
        s2 == IF s1.p.active_effects # <<>>
              THEN Say([s1 EXCEPT !.p.active_effects = <<>>], "effects_gone")
              ELSE s1
        s3 == [s2 EXCEPT !.p.base_stats.health =
                             s.tables.CLASSES[s.p.class_name].base_stats.health
                             + (s.p.level - 1) * 10,
                         !.p.location = "player_camp"]
    IN [Say(s3, "camp") EXCEPT !.nap = <<target>>]

\* lose_battle after the sleep
lose_battle_resume(s) ==
    show_location([Say(s, "rested") EXCEPT !.nap = <<>>], s.nap[1])

RECURSIVE CompleteQuests(_, _)
\* for q_id in player.active_quests[:]
CompleteQuests(s, todo) ==
    IF todo = <<>> THEN s
    ELSE LET q_id == Head(todo)
             done == /\ q_id \in QuestIds
                     /\ \A mob \in DOMAIN QUESTS[q_id].objectives :
                            Get(s.p.kill_count, mob, 0) >= QUESTS[q_id].objectives[mob]
         IN IF done
            THEN CompleteQuests(
                    apply_rewards(
                        Say([s EXCEPT !.p.active_quests = Remove(q_id, @),
                                      !.p.completed_quests = Append(@, q_id)],
                            "quest_done"),
                        QUESTS[q_id].rewards),
                    Tail(todo))
            ELSE CompleteQuests(s, Tail(todo))

BOSS_GOLD_BONUS == 100
NoBossBonus(enemy) ==
    [experience |-> enemy.experience, gold |-> (enemy.experience * 8) \div 10]
\* rewards = {'experience': ..., 'gold': int(enemy['experience'] * 0.8)}, +100 for a boss
BattleRewards(enemy) ==
    [experience |-> enemy.experience,
     gold |-> (enemy.experience * 8) \div 10
              + (IF Get(enemy, "is_boss", FALSE) THEN BOSS_GOLD_BONUS ELSE 0)]

LevelCascade(s) ==
    IF s.p.experience >= s.p.level * 100
    THEN LET s1 == Say([s EXCEPT !.p.experience = @ - s.p.level * 100,
                                 !.p.level = @ + 1,
                                 !.p.base_stats.attack = @ + 2,
                                 !.p.base_stats.health = @ + 10],
                       "level_up")
         IN IF s1.p.experience >= s1.p.level * 100
            THEN [s1 EXCEPT !.p.experience = @ - s1.p.level * 100,
                            !.p.level = @ + 1,
                            !.p.base_stats.attack = @ + 2,
                            !.p.base_stats.health = @ + 10]
            ELSE s1
    ELSE s

\* if player.experience >= player.level * 100
LevelUp(s) ==
    IF s.p.experience >= s.p.level * 100
    THEN Say([s EXCEPT !.p.experience = @ - s.p.level * 100,
                       !.p.level = @ + 1,
                       !.p.base_stats.attack = @ + 2,
                       !.p.base_stats.health = @ + 10],
             "level_up")
    ELSE s

BossKeepsSlots(s, enemy, enemy_id) ==
    IF Get(enemy, "is_boss", FALSE)
    THEN Say([s EXCEPT !.p.defeated_bosses = @ \cup {enemy_id}], "boss_defeated")
    ELSE Say(s, "victory")
\* if enemy.get('is_boss'): defeated_bosses.add(enemy_id); artifact_slots += 1
BossUnlock(s, enemy, enemy_id) ==
    IF Get(enemy, "is_boss", FALSE)
    THEN Say([s EXCEPT !.p.defeated_bosses = @ \cup {enemy_id},
                       !.p.artifact_slots = @ + 1],
             "boss_defeated")
    ELSE Say(s, "victory")

KillCountsTwice(s, enemy_id) == [s EXCEPT !.p.kill_count[enemy_id] = @ + 2]
\* player.kill_count[enemy_id] = player.kill_count.get(enemy_id, 0) + 1
CountKill(s, enemy_id) == [s EXCEPT !.p.kill_count[enemy_id] = @ + 1]

win_battle(s, enemy, enemy_id) ==
    LET max_hp == get_max_health(s.p)
        current_hp == s.p.base_stats.health
        heal_amt == (max_hp * 3) \div 10
        s1 == [s EXCEPT !.ud.in_battle = FALSE,
                        !.p = tick_effects([@ EXCEPT !.base_stats.health =
                                               Min(max_hp, current_hp + heal_amt)])]
        is_event_battle == s.ud.in_battle_from_event
        rewards == BattleRewards(enemy)
        s2 == BossUnlock(s1, enemy, enemy_id)
        s3 == CountKill(s2, enemy_id)
        s4 == CompleteQuests(s3, s3.p.active_quests)
        s5 == LevelUp(s4)
    IN IF is_event_battle
       THEN continue_event_chain(
                apply_rewards([s5 EXCEPT !.ud.in_battle_from_event = FALSE], rewards))
       ELSE IF s5.ud.in_story
       THEN LET s6 == apply_rewards(s5, rewards)
                story_data == s6.ud.current_story[1]
                found == SceneById(STORY[StoryKey(story_data.city)],
                                   story_data.current_scene)
            IN IF found # <<>> /\ Get(found[1], "next_scene", NONE) # NONE
               THEN show_story_scene(
                       [s6 EXCEPT !.p.story_progress[story_data.city] =
                                      found[1].next_scene],
                       story_data.city, found[1].next_scene)
               ELSE show_location([s6 EXCEPT !.ud.in_story = FALSE], s6.p.location)
       ELSE show_location(apply_rewards(s5, rewards), s5.p.location)

DeathIsVictory(s) == win_battle(s, s.ud.battle[1].enemy, s.ud.battle[1].e_id)

PhaseKeepsHealth(s) ==
    LET b == s.ud.battle[1]
        enemy == b.enemy
    IN IF Has(enemy, "phases") /\ b.phase <= Len(enemy.phases)
       THEN Say([s EXCEPT !.ud.battle[1].phase = @ + 1], "phase")
       ELSE win_battle(s, enemy, b.e_id)

handle_enemy_death(s) ==
    LET b == s.ud.battle[1]
        enemy == b.enemy
    IN IF Has(enemy, "phases") /\ b.phase <= Len(enemy.phases)
       THEN LET phase_data == enemy.phases[b.phase]
                e1 == [enemy EXCEPT !.attack = phase_data.attack,
                                    !.name = phase_data.name,
                                    !.image = phase_data.image]
                e2 == IF Has(phase_data, "resistances")
                      THEN Put(e1, "resistances", phase_data.resistances)
                      ELSE e1
            IN Say([s EXCEPT !.ud.battle[1].phase = @ + 1,
                             !.ud.battle[1].e_hp = phase_data.health,
                             !.ud.battle[1].enemy = e2],
                   "phase")
       ELSE win_battle(s, enemy, b.e_id)

DotNoExpiry(s, stats) ==
    LET b == s.ud.battle[1]
        dots == b.active_dots
        e_hp == b.e_hp - SeqSum([i \in 1..Len(dots) |-> dots[i].damage])
        ticked == [i \in 1..Len(dots) |-> [dots[i] EXCEPT !.duration = @ - 1]]
        s1 == [s EXCEPT !.ud.battle[1].e_hp = e_hp,
                        !.ud.battle[1].active_dots = ticked]
        s2 == IF dots # <<>> THEN Say(s1, "dot_damage") ELSE s1
    IN IF dots # <<>> /\ e_hp <= 0 THEN {handle_enemy_death(s2)}
       ELSE {LET s3 == Say([s2 EXCEPT !.ud.battle[1].p_hp = @ - e_dmg], "enemy_hits")
             IN IF s3.ud.battle[1].p_hp <= 0 THEN lose_battle(s3)
                ELSE [s3 EXCEPT !.p.base_stats.health = s3.ud.battle[1].p_hp]
             : e_dmg \in EnemyDamage(b.enemy.attack, stats.defense)}

\* the DoT phase and the enemy turn of handle_battle; stats were read when
\* the handler began
DotAndEnemyTurn(s, stats) ==
    LET b == s.ud.battle[1]
        dots == b.active_dots
        e_hp == b.e_hp - SeqSum([i \in 1..Len(dots) |-> dots[i].damage])
        ticked == [i \in 1..Len(dots) |-> [dots[i] EXCEPT !.duration = @ - 1]]
        s1 == [s EXCEPT !.ud.battle[1].e_hp = e_hp,
                        !.ud.battle[1].active_dots = SelectSeq(ticked, Alive)]
        s2 == IF dots # <<>> THEN Say(s1, "dot_damage") ELSE s1
    IN IF dots # <<>> /\ e_hp <= 0 THEN {handle_enemy_death(s2)}
       ELSE {LET s3 == Say([s2 EXCEPT !.ud.battle[1].p_hp = @ - e_dmg], "enemy_hits")
             IN IF s3.ud.battle[1].p_hp <= 0 THEN lose_battle(s3)
                ELSE [s3 EXCEPT !.p.base_stats.health = s3.ud.battle[1].p_hp]
             : e_dmg \in EnemyDamage(b.enemy.attack, stats.defense)}

\* after a player action: the enemy may be dead
NoShortCircuit(s, stats) ==
    IF s.ud.battle[1].e_hp <= 0
    THEN LET d == handle_enemy_death(s)
         IN IF d.ud.in_battle THEN DotAndEnemyTurn(d, stats) ELSE {d}
    ELSE DotAndEnemyTurn(s, stats)

\* if b['e_hp'] <= 0: handle_enemy_death and return, else the rest of the turn
AfterPlayerAction(s, stats) ==
    IF s.ud.battle[1].e_hp <= 0 THEN {handle_enemy_death(s)}
    ELSE DotAndEnemyTurn(s, stats)

DotAlwaysAppend(active_dots, dot_conf, attack, enemy_res) ==
    Append(active_dots,
           [type |-> dot_conf.type, name |-> dot_conf.name,
            damage |-> Max(1, (attack * dot_conf.mult
                               * Max(0, 10 - Get(enemy_res, dot_conf.type, 0))) \div 100),
            duration |-> dot_conf.duration])
\* the DoT an ability declares, applied to the list of active DoTs
ApplyDot(active_dots, dot_conf, attack, enemy_res) ==
    LET dot_dmg == (attack * dot_conf.mult * Max(0, 10 - Get(enemy_res, dot_conf.type, 0)))
                   \div 100
        fresh == [type |-> dot_conf.type, name |-> dot_conf.name,
                  damage |-> Max(1, dot_dmg), duration |-> dot_conf.duration]
    IN IF \E i \in 1..Len(active_dots) : active_dots[i].name = dot_conf.name
       THEN LET i == CHOOSE k \in 1..Len(active_dots) :
                        /\ active_dots[k].name = dot_conf.name
                        /\ \A j \in 1..(k - 1) : active_dots[j].name # dot_conf.name
            IN [active_dots EXCEPT ![i].duration = dot_conf.duration,
                                   ![i].damage = Max(1, dot_dmg)]
       ELSE Append(active_dots, fresh)

HealClamped(p_hp, amount, max_hp) == Min(max_hp, p_hp + amount)
\* b['p_hp'] += healed
AbilityHeal(p_hp, amount, max_hp) == p_hp + amount

\* a known ability below its use limit: one result per damage draw
CastAbility(s, stats, ability_name) ==
    LET effect == ABILITIES[ability_name]
        b == s.ud.battle[1]
        enemy_res == Get(b.enemy, "resistances", [x \in {} |-> 0])
        totals == IF Has(effect, "layers")
                  THEN LayerTotals(effect.layers, stats.attack, enemy_res)
                  ELSE IF Has(effect, "dmg_mult")
                  THEN calculate_single_layer_damage(stats.attack, effect.dmg_mult,
                                                     "physical", enemy_res)
                  ELSE {0}
        max_hp == get_max_health(s.p)
    IN {LET dots == IF Has(effect, "dot")
                    THEN ApplyDot(b.active_dots, effect.dot, stats.attack, enemy_res)
                    ELSE b.active_dots
            hp1 == IF Has(effect, "heal")
                   THEN AbilityHeal(b.p_hp, (total * effect.heal) \div 10, max_hp)
                   ELSE b.p_hp
            hp2 == IF Has(effect, "heal_flat")
                   THEN AbilityHeal(hp1, effect.heal_flat, max_hp)
                   ELSE hp1
            s1 == [s EXCEPT !.ud.battle[1].skill_uses[ability_name] = @ + 1,
                            !.ud.battle[1].e_hp = @ - total,
                            !.ud.battle[1].active_dots = dots,
                            !.ud.battle[1].p_hp = hp2]
            s2 == IF Has(effect, "defense_buff")
                  THEN [s1 EXCEPT !.p = add_effect(@, ability_name,
                                                   [defense |-> effect.defense_buff], 1)]
                  ELSE s1
        IN Say(s2, "ability") : total \in totals}

\* reply_text(desc) with desc == "": the chat API may refuse the empty
\* message (the handler then ends with the exception) or send it
EmptyReply(s, stats) ==
    {s} \cup AfterPlayerAction(Say(s, "empty"), stats)

\* text.startswith("🔮") with a name ABILITIES does not hold: effect is None,
\* desc stays "" and the handler goes on as for any other text
UnknownAbility(s, stats) ==
    {s} \cup AfterPlayerAction(Say(s, "unknown_ability"), stats)

NoUseLimit(effect) == 99
\* limit = effect.get('max_uses', 99)
UseLimit(effect) == Get(effect, "max_uses", 99)

DrinkKeepsPotion(s, item_id) ==
    LET item == ITEMS[item_id]
        b == s.ud.battle[1]
        heal == Get(Get(item, "stats", [x \in {} |-> 0]), "health", 0)
        max_hp == get_max_health(s.p)
        hp == IF heal > 0 THEN HealClamped(b.p_hp, heal, max_hp) ELSE b.p_hp
    IN Say([s EXCEPT !.ud.battle[1].p_hp = hp,
                     !.p.base_stats.health = IF heal > 0 THEN hp ELSE @,
                     !.ud.battle_potion_menu = FALSE],
           "potion_drunk")

DrinkInBattle(s, item_id) ==
    LET item == ITEMS[item_id]
        b == s.ud.battle[1]
        heal == Get(Get(item, "stats", [x \in {} |-> 0]), "health", 0)
        buffs == Get(item, "buffs", [x \in {} |-> 0])
        max_hp == get_max_health(s.p)
        hp == IF heal > 0 THEN HealClamped(b.p_hp, heal, max_hp) ELSE b.p_hp
        s1 == [s EXCEPT !.p.inventory = Remove(item_id, @),
                        !.ud.battle[1].p_hp = hp,
                        !.p.base_stats.health = IF heal > 0 THEN hp ELSE @]
        s2 == IF DOMAIN buffs # {}
              THEN [s1 EXCEPT !.p = add_effect(@, item.name,
                                               [k \in DOMAIN buffs \ {"duration"} |-> buffs[k]],
                                               Get(buffs, "duration", 1))]
              ELSE s1
    IN Say([s2 EXCEPT !.ud.battle_potion_menu = FALSE], "potion_drunk")

FleeTakesHit(s) ==
    LET s1 == [s EXCEPT !.ud.in_battle = FALSE,
                        !.ud.in_battle_from_event = FALSE,
                        !.p = tick_effects(@),
                        !.p.base_stats.health = @ - 1]
    IN show_location(Say(s1, "fled"), s.p.current_city)

\* the branch of handle_battle for the flee button
flee_battle(s) ==
    LET s1 == [s EXCEPT !.ud.in_battle = FALSE,
                        !.ud.in_battle_from_event = FALSE,
                        !.p = tick_effects(@)]
    IN show_location(Say(s1, "fled"), s.p.current_city)

handle_battle(s, text) ==
    LET b == s.ud.battle[1]
        stats == get_total_stats(s.p)
    IN IF s.ud.battle_potion_menu
       THEN IF text = BACK
            THEN {Say([s EXCEPT !.ud.battle_potion_menu = FALSE], "battle_continues")}
            ELSE IF text.k = "BattlePotion"
            THEN LET item_id == ItemByName(text.a)
                 IN IF item_id # NONE /\ InSeq(item_id, s.p.inventory)
                    THEN LET item == ITEMS[item_id]
                             heal == Get(Get(item, "stats", [x \in {} |-> 0]), "health", 0)
                         IN IF heal > 0 /\ ~Has(item, "buffs")
                               /\ b.p_hp >= get_max_health(s.p)
                            THEN {Say(s, "health_full")}
                            ELSE DotAndEnemyTurn(DrinkInBattle(s, item_id), stats)
                    ELSE {Say(s, "potion_missing")}
            ELSE {s}
       ELSE IF text = POTIONS
       THEN IF \E i \in 1..Len(s.p.inventory) :
                    /\ s.p.inventory[i] \in ItemIds
                    /\ ITEMS[s.p.inventory[i]].type = "consumable"
            THEN {Say([s EXCEPT !.ud.battle_potion_menu = TRUE], "potion_menu")}
            ELSE {Say(s, "no_potions")}
       ELSE IF text = FLEE
       THEN {flee_battle(s)}
       ELSE IF text = ATTACK
       THEN UNION {AfterPlayerAction(
                       Say([s EXCEPT !.ud.battle[1].e_hp = @ - dmg], "attack"), stats)
                   : dmg \in calculate_single_layer_damage(
                                 stats.attack, 10, "physical",
                                 Get(b.enemy, "resistances", [x \in {} |-> 0]))}
       ELSE IF text.k = "Ability" /\ text.a \in AbilityNames
       THEN IF b.skill_uses[text.a] >= UseLimit(ABILITIES[text.a])
            THEN {Say(s, "ability_exhausted")}
            ELSE UNION {AfterPlayerAction(s1, stats) : s1 \in CastAbility(s, stats, text.a)}
       ELSE IF text.k = "Ability"
       THEN UnknownAbility(s, stats)
       ELSE EmptyReply(s, stats)

(***************************************************************************)
(* Inventory, shop, teleport, stats                                        *)
(***************************************************************************)
show_inventory_menu(s) ==
    Say([s EXCEPT !.ud.in_inventory = TRUE, !.ud.viewing_item = NONE], "inventory_menu")

show_item_details(s, item_id) ==
    Say([s EXCEPT !.ud.viewing_item = item_id], "item_details")

UseConsumable(s, item_id) ==
    LET item == ITEMS[item_id]
        s1 == [s EXCEPT !.p.inventory = Remove(item_id, @)]
        s2 == IF Has(item, "stats") /\ Has(item.stats, "health")
              THEN Say([s1 EXCEPT !.p.base_stats.health =
                                      Min(get_max_health(s1.p), @ + item.stats.health)],
                       "healed")
              ELSE s1
        s3 == IF Has(item, "buffs")
              THEN Say([s2 EXCEPT !.p = add_effect(@, item.name,
                            [k \in DOMAIN item.buffs \ {"duration"} |-> item.buffs[k]],
                            Get(item.buffs, "duration", 1))],
                       "buffed")
              ELSE s2
    IN show_inventory_menu(s3)

handle_inventory_action(s, text) ==
    LET owned == {s.p.inventory[i] : i \in 1..Len(s.p.inventory)} \cap ItemIds
        clicked == {item_id \in owned :
                       text = InventoryLabel(ITEMS[item_id].name,
                                             Count(item_id, s.p.inventory),
                                             InSeq(item_id, s.p.equipped_artifacts))}
        item_id == s.ud.viewing_item
    IN IF text = BACK
       THEN IF s.ud.viewing_item # NONE THEN show_inventory_menu(s)
            ELSE show_location(s, s.p.location)
       ELSE IF s.ud.viewing_item = NONE /\ clicked # {}
       THEN show_item_details(s, CHOOSE i \in clicked : TRUE)
       ELSE IF item_id = NONE THEN s
       ELSE IF text = USE_ITEM /\ item_id \in ItemIds
       THEN IF ITEMS[item_id].type = "consumable" THEN UseConsumable(s, item_id) ELSE s
       ELSE IF text = EQUIP
       THEN LET r == equip_artifact(s.p, item_id)
            IN show_inventory_menu(Say([s EXCEPT !.p = r.p], r.msg))
       ELSE IF text = UNEQUIP
       THEN LET r == unequip_artifact(s.p, item_id)
            IN show_inventory_menu(Say([s EXCEPT !.p = r.p], r.msg))
       ELSE s

show_shop_menu(s) == Say(s, "shop_menu")

start_shop(s, shop_items) ==
    show_shop_menu([s EXCEPT !.ud.in_shop = TRUE, !.ud.current_shop_items = shop_items])

\* max(1, int(item['price'] * 0.5))
SellPrice(item_id) == Max(1, ITEMS[item_id].price \div 2)

show_shop_item_details(s, item_id, is_selling) ==
    IF is_selling
    THEN Say([s EXCEPT !.ud.shop_confirm_sell = item_id], "sell_details")
    ELSE Say([s EXCEPT !.ud.shop_confirm_buy = item_id], "buy_details")

show_sell_menu(s) == Say([s EXCEPT !.ud.in_shop_sell = TRUE], "sell_menu")

\* the items show_sell_menu lists
SellMenuItems(p) ==
    {item_id \in ItemIds : InSeq(item_id, p.inventory)
                           /\ ~InSeq(item_id, p.equipped_artifacts)}

SellableOwned(p) == {p.inventory[i] : i \in 1..Len(p.inventory)} \cap ItemIds

AlwaysAfford(p, item_id) == TRUE
\* player.gold >= item['price']
CanAfford(p, item_id) == p.gold >= ITEMS[item_id].price

handle_shop_action(s, text) ==
    IF text = BACK
    THEN IF s.ud.shop_confirm_buy # NONE \/ s.ud.shop_confirm_sell # NONE
         THEN LET s1 == [s EXCEPT !.ud.shop_confirm_buy = NONE,
                                  !.ud.shop_confirm_sell = NONE]
              IN IF s.ud.in_shop_sell THEN show_sell_menu(s1) ELSE show_shop_menu(s1)
         ELSE IF s.ud.in_shop_sell
         THEN show_shop_menu([s EXCEPT !.ud.in_shop_sell = FALSE])
         ELSE show_location([s EXCEPT !.ud.in_shop = FALSE], s.p.location)
    ELSE IF s.ud.shop_confirm_buy # NONE
    THEN IF text = CONFIRM_BUY
         THEN LET item_id == s.ud.shop_confirm_buy
                  price == ITEMS[item_id].price
              IN IF CanAfford(s.p, item_id)
                 THEN show_shop_menu(
                         Say([s EXCEPT !.p.gold = @ - price,
                                       !.p.inventory = Append(@, item_id),
                                       !.ud.shop_confirm_buy = NONE],
                             "bought"))
                 ELSE Say(s, "not_enough_gold")
         ELSE s
    ELSE IF s.ud.shop_confirm_sell # NONE
    THEN IF text = CONFIRM_SELL
         THEN LET item_id == s.ud.shop_confirm_sell
              IN IF InSeq(item_id, s.p.inventory)
                 THEN show_sell_menu(
                         Say([s EXCEPT !.p.inventory = Remove(item_id, @),
                                       !.p.gold = @ + SellPrice(item_id),
                                       !.ud.shop_confirm_sell = NONE],
                             "sold"))
                 ELSE Say(s, "already_sold")
         ELSE s
    ELSE IF text = SELL_ITEMS THEN show_sell_menu(s)
    ELSE IF s.ud.in_shop_sell
    THEN LET clicked == {item_id \in SellableOwned(s.p) :
                            text = SellLabel(ITEMS[item_id].name, SellPrice(item_id),
                                             Count(item_id, s.p.inventory))}
         IN IF clicked # {}
            THEN show_shop_item_details(s, CHOOSE i \in clicked : TRUE, TRUE)
            ELSE s
    ELSE LET shop_items == s.ud.current_shop_items
             hits == {i \in 1..Len(shop_items) :
                         /\ shop_items[i] \in ItemIds
                         /\ StartsWithName(text, ITEMS[shop_items[i]].name)}
         IN IF hits # {}
            THEN show_shop_item_details(
                    s, shop_items[CHOOSE i \in hits : \A j \in hits : i <= j], FALSE)
            ELSE s

show_city_teleport_menu(s) == Say([s EXCEPT !.ud.in_city_teleport = TRUE], "teleport_menu")

handle_city_teleport(s, text) ==
    LET hits == {city_id \in s.p.unlocked_cities :
                    text = CityLabel(LOCATIONS[city_id].name)}
    IN IF text = BACK
       THEN show_location([s EXCEPT !.ud.in_city_teleport = FALSE], s.p.current_city)
       ELSE IF hits # {}
       THEN show_location(Say([s EXCEPT !.ud.in_city_teleport = FALSE], "teleporting"),
                          CHOOSE c \in hits : TRUE)
       ELSE s

show_stats(s) == Say([s EXCEPT !.p = update_fatigue(@, s.now)], "stats")

generic_back_button(s) ==
    IF s.ud.in_inventory THEN show_inventory_menu(s)
    ELSE IF s.ud.in_shop \/ s.ud.in_shop_sell \/ s.ud.shop_confirm_buy # NONE
            \/ s.ud.shop_confirm_sell # NONE
    THEN show_shop_menu([s EXCEPT !.ud.shop_confirm_buy = NONE,
                                  !.ud.shop_confirm_sell = NONE,
                                  !.ud.in_shop_sell = FALSE])
    ELSE IF s.ud.in_city_teleport
    THEN show_location([s EXCEPT !.ud.in_city_teleport = FALSE], s.p.location)
    ELSE IF s.p.location = "class_selection" THEN show_class_selection(s)
    ELSE show_location(s, s.p.location)

(***************************************************************************)
(* Routing                                                                 *)
(***************************************************************************)
handle_class_selection(s, text) ==
    IF text = BACK_TO_CLASSES \/ text = BACK THEN show_class_selection(s)
    ELSE IF text.k = "ViewClass"
    THEN LET c_id == ClassByName(text.a)
         IN IF c_id # NONE
            THEN Say([s EXCEPT !.ud.selected_class = c_id], "class_details")
            ELSE s
    ELSE IF text = CHOOSE_CLASS
    THEN LET c_id == s.ud.selected_class
         IN IF c_id = NONE THEN show_class_selection(s)
            ELSE start_intro_story(
                    Say([s EXCEPT !.p.class_name = c_id,
                                  !.p.base_stats = copy(s.tables.CLASSES[c_id].base_stats).items,
                                  !.ud.selected_class = NONE],
                        "class_chosen"))
    ELSE s

\* next((a for a in loc["actions"] if a["text"] == text), None)
FindAction(loc, text) ==
    SelectSeq(LOCATIONS[loc].actions, LAMBDA a : ActionLabel(a.text) = text)

\* the session values handle_location_action leaves; empty when it returns False
\* without having shown a location
handle_location_action(s, text) ==
    LET found == FindAction(s.p.location, text)
        action == found[1]
    IN IF found = <<>> THEN {}
       ELSE CASE action.type = "location" -> {show_location(s, action.target)}
              [] action.type = "battle" -> {start_battle(s, action.target)}
              [] action.type = "quest" -> {start_quest(s, action.target)}
              [] action.type = "story" -> {start_story_line(s, action.target)}
              [] action.type = "shop" ->
                    {start_shop(s, Get(action, "shop_items", <<>>))}
              [] action.type = "random_events" -> start_random_event(s, action.target)
              [] OTHER -> {s}

FooterBeforeModes(s, text) ==
    IF s.p.location = "player_camp" THEN {Say(s, "resting")}
    ELSE IF s.p.location = "class_selection" THEN {handle_class_selection(s, text)}
    ELSE IF s.ud.in_battle THEN handle_battle(s, text)
    ELSE IF text = INVENTORY THEN {show_inventory_menu(s)}
    ELSE IF text = TELEPORT THEN {show_city_teleport_menu(s)}
    ELSE IF s.ud.in_story THEN {handle_story_action(s, text)}
    ELSE IF s.ud.in_random_event THEN handle_random_event_action(s, text)
    ELSE IF s.ud.in_city_teleport THEN {handle_city_teleport(s, text)}
    ELSE IF s.ud.in_inventory THEN {handle_inventory_action(s, text)}
    ELSE IF s.ud.in_shop \/ s.ud.in_shop_sell \/ s.ud.shop_confirm_buy # NONE
            \/ s.ud.shop_confirm_sell # NONE
    THEN {handle_shop_action(s, text)}
    ELSE IF text = STATS THEN {show_stats(s)}
    ELSE IF text = BACK THEN {generic_back_button(s)}
    ELSE IF text = TO_CITY THEN {show_location(s, s.p.current_city)}
    ELSE IF s.p.location \notin LocationIds
    THEN {LET s1 == show_location(s, s.p.current_city)
          IN show_location(s1, s1.p.location)}
    ELSE IF handle_location_action(s, text) = {} THEN {show_location(s, s.p.location)}
    ELSE handle_location_action(s, text)

handle_message(s, text) ==
    IF s.p.location = "player_camp" THEN {Say(s, "resting")}
    ELSE IF s.p.location = "class_selection" THEN {handle_class_selection(s, text)}
    ELSE IF s.ud.in_battle THEN handle_battle(s, text)
    ELSE IF s.ud.in_story THEN {handle_story_action(s, text)}
    ELSE IF s.ud.in_random_event THEN handle_random_event_action(s, text)
    ELSE IF s.ud.in_city_teleport THEN {handle_city_teleport(s, text)}
    ELSE IF s.ud.in_inventory THEN {handle_inventory_action(s, text)}
    ELSE IF s.ud.in_shop \/ s.ud.in_shop_sell \/ s.ud.shop_confirm_buy # NONE
            \/ s.ud.shop_confirm_sell # NONE
    THEN {handle_shop_action(s, text)}
    ELSE IF text = STATS THEN {show_stats(s)}
    ELSE IF text = INVENTORY THEN {show_inventory_menu(s)}
    ELSE IF text = TELEPORT THEN {show_city_teleport_menu(s)}
    ELSE IF text = BACK THEN {generic_back_button(s)}
    ELSE IF text = TO_CITY THEN {show_location(s, s.p.current_city)}
    ELSE IF s.p.location \notin LocationIds
    THEN {LET s1 == show_location(s, s.p.current_city)
          IN show_location(s1, s1.p.location)}
    ELSE IF handle_location_action(s, text) = {} THEN {show_location(s, s.p.location)}
    ELSE handle_location_action(s, text)

\* the /start command
start(s) ==
    IF s.p.class_name # NONE
    THEN IF s.ud.in_battle THEN Say(s, "in_battle")
         ELSE IF s.p.location = "class_selection"
         THEN show_location(Say(s, "welcome_back"), s.p.current_city)
         ELSE show_location(Say(s, "welcome_back"), s.p.location)
    ELSE show_class_selection(s)

\* the /restart command: a new Player, user_data cleared
restart(s) ==
    show_class_selection(
        Say([s EXCEPT !.p = Player(s.p.user_id, s.now), !.ud = EmptyUserData],
            "restarted"))

(***************************************************************************)
(* The state machine.                                                      *)
(*                                                                         *)
(* main() builds the Application with its defaults, so updates are handled *)
(* one at a time in arrival order: the next update is taken from the       *)
(* queue only when the handler of the previous one has returned, and a     *)
(* handler suspended in asyncio.sleep holds the dispatcher.                *)
(***************************************************************************)
VARIABLES
    player_states,  \* user id -> Player, for the users seen so far
    user_data,      \* user id -> context.user_data
    update_queue,   \* updates received and not yet handled
    suspended,      \* <<[uid, target]>> while a lose_battle sleeps, else <<>>
    clock,          \* time.time(), in steps of ClockStep seconds
    replies,        \* user and messages of the update handled last
    probe,          \* the last calls made when functions are exercised on their own
    content         \* the content tables CLASSES, ENEMIES and BOSSES loaded at startup

vars == <<player_states, user_data, update_queue, suspended, clock, replies, probe,
          content>>

Users == {1, 2}
ClockStep == 36 * 50

ClassLabels == {ViewClassLabel(CLASSES[c].name) : c \in ClassIds}
ActionLabels ==
    UNION {{ActionLabel(LOCATIONS[l].actions[i].text) :
                i \in DOMAIN LOCATIONS[l].actions} : l \in LocationIds}
ItemLabels ==
    {InventoryLabel(ITEMS[i].name, n, e) : i \in ItemIds, n \in 1..MaxInv, e \in BOOLEAN}
    \cup {ShopLabel(ITEMS[i].name, ITEMS[i].price) : i \in ItemIds}
    \cup {SellLabel(ITEMS[i].name, SellPrice(i), n) : i \in ItemIds, n \in 1..MaxInv}
BattleLabels ==
    {ATTACK, POTIONS, FLEE, AbilityLabel("Mend"), AbilityLabel("Unknown")}
    \cup {BattlePotionLabel("Potion", n) : n \in 1..1}
FixedLabels ==
    {BACK, CHOOSE_CLASS, CONTINUE, RETURN_TO_TOWN, MORE_EVENTS, USE_ITEM, EQUIP,
     UNEQUIP, CONFIRM_BUY, CONFIRM_SELL, SELL_ITEMS, STATS, INVENTORY, TELEPORT,
     TO_CITY, OTHER_TEXT}

Text(t) == [cmd |-> "text", text |-> t]
START == [cmd |-> "start", text |-> Lbl("")]
RESTART == [cmd |-> "restart", text |-> Lbl("")]

\* the updates a user sends in the full game
AllUpdates ==
    {START, RESTART}
    \cup {Text(t) : t \in ClassLabels \cup ActionLabels \cup ItemLabels
                          \cup BattleLabels \cup FixedLabels}

RECURSIVE TotalKills(_, _)
TotalKills(kill_count, ids) ==
    IF ids = {} THEN 0
    ELSE LET e == CHOOSE x \in ids : TRUE
         IN kill_count[e] + TotalKills(kill_count, ids \ {e})

\* the state space is cut where a counter passes its bound
WithinBounds(p) ==
    /\ TotalKills(p.kill_count, EnemyIds) <= MaxKills
    /\ Len(p.inventory) <= MaxInv
    /\ Len(p.active_effects) <= MaxEffects
    /\ p.base_stats.health <= get_max_health(p) + MaxOverheal

SharedKey(user_id) == 1
\* the key of player_states and of the per-user user_data
SessionKey(user_id) == user_id

\* get_player: the Player of the user, made on first contact
get_player(user_id) ==
    IF SessionKey(user_id) \in DOMAIN player_states
    THEN player_states[SessionKey(user_id)]
    ELSE Player(user_id, clock * ClockStep)

\* what the handler registered for the update leaves behind
Handle(user_id, upd) ==
    LET s == [p |-> get_player(user_id), ud |-> user_data[SessionKey(user_id)],
              out |-> <<>>, nap |-> <<>>, now |-> clock * ClockStep,
              tables |-> content]
    IN CASE upd.cmd = "start" -> {start(s)}
         [] upd.cmd = "restart" -> {restart(s)}
         [] OTHER -> handle_message(s, upd.text)

Commit(user_id, r) ==
    /\ WithinBounds(r.p)
    /\ player_states' = Put(player_states, SessionKey(user_id), r.p)
    /\ user_data' = [user_data EXCEPT ![SessionKey(user_id)] = r.ud]
    /\ suspended' = IF r.nap # <<>> THEN <<[uid |-> user_id, target |-> r.nap[1]]>>
                    ELSE suspended
    /\ replies' = [uid |-> user_id, out |-> r.out]
    /\ content' = TablesAfter(r.tables, r.p, r.ud)

ConcurrentUpdates == TRUE
\* concurrent_updates is off: no handler starts while one is suspended
DispatcherFree == suspended = <<>>

Init ==
    /\ player_states = [u \in {} |-> 0]
    /\ user_data = [u \in Users |-> EmptyUserData]
    /\ update_queue = <<>>
    /\ suspended = <<>>
    /\ clock = 0
    /\ replies = [uid |-> 0, out |-> <<>>]
    /\ content = ContentTables
    /\ probe = <<>>

\* an update arrives while the dispatcher is free and is handled at once
Deliver(user_id, upd) ==
    /\ DispatcherFree
    /\ update_queue = <<>>
    /\ \E r \in Handle(user_id, upd) : Commit(user_id, r)
    /\ UNCHANGED <<update_queue, clock, probe>>

\* an update arrives while a handler is suspended: it waits in the queue
Arrive(user_id, upd) ==
    /\ suspended # <<>>
    /\ Len(update_queue) < MaxQueue
    /\ update_queue' = Append(update_queue, [uid |-> user_id, upd |-> upd])
    /\ UNCHANGED <<player_states, user_data, suspended, clock, replies, probe, content>>

\* the dispatcher takes the oldest waiting update
Dispatch ==
    /\ DispatcherFree
    /\ update_queue # <<>>
    /\ \E r \in Handle(Head(update_queue).uid, Head(update_queue).upd) :
            Commit(Head(update_queue).uid, r)
    /\ update_queue' = Tail(update_queue)
    /\ UNCHANGED <<clock, probe>>

\* asyncio.sleep(15) is over: lose_battle goes on to show_location
Wake ==
    /\ suspended # <<>>
    /\ LET u == suspended[1].uid
           s == [p |-> player_states[SessionKey(u)], ud |-> user_data[SessionKey(u)],
                 out |-> <<>>, nap |-> <<suspended[1].target>>, now |-> clock * ClockStep,
                 tables |-> content]
           r == lose_battle_resume(s)
       IN /\ player_states' = [player_states EXCEPT ![SessionKey(u)] = r.p]
          /\ user_data' = [user_data EXCEPT ![SessionKey(u)] = r.ud]
          /\ replies' = [uid |-> u, out |-> r.out]
          /\ content' = TablesAfter(r.tables, r.p, r.ud)
    /\ suspended' = <<>>
    /\ UNCHANGED <<update_queue, clock, probe>>

Tick ==
    /\ clock < MaxClock
    /\ clock' = clock + 1
    /\ UNCHANGED <<player_states, user_data, update_queue, suspended, replies, probe,
                   content>>

\* the labels of class choice and of moving between locations
TravelUpdates ==
    {START} \cup {Text(t) : t \in ClassLabels \cup {CHOOSE_CLASS}}
    \cup {Text(ActionLabel(a)) : a \in {"GoForest", "GoVillage"}}

\* one user who fights the enemies of the forest
ExploreUpdates ==
    TravelUpdates
    \cup {Text(ActionLabel(a)) : a \in {"FightWolf", "FightOgre"}}
    \cup {Text(t) : t \in {ATTACK, FLEE, AbilityLabel("Mend")}}

\* one user who meets battles in exploration, in the story and in event chains
EngineUpdates ==
    {START} \cup {Text(t) : t \in ClassLabels \cup {CHOOSE_CLASS}}
    \cup {Text(ActionLabel(a)) : a \in {"GoForest", "FightOgre", "Story", "Events"}}
    \cup {Text(t) : t \in {ATTACK, FLEE, CONTINUE}}

\* one user who buys, sells, drinks and equips in town
ItemUpdates ==
    {START, RESTART}
    \cup {Text(t) : t \in ClassLabels \cup {CHOOSE_CLASS, ActionLabel("Shop")}}
    \cup {Text(t) : t \in ItemLabels \cup {BACK, CONFIRM_BUY, CONFIRM_SELL, SELL_ITEMS,
                                           INVENTORY, USE_ITEM, EQUIP, UNEQUIP}}

\* one user who buys artifacts and beats the boss for further slots
EquipUpdates ==
    {START} \cup {Text(t) : t \in ClassLabels \cup {CHOOSE_CLASS}}
    \cup {Text(ActionLabel(a)) : a \in {"Shop", "GoForest", "FightOgre"}}
    \cup {Text(InventoryLabel(ITEMS[i].name, 1, e)) : i \in {"ring", "amulet"}, e \in BOOLEAN}
    \cup {Text(ShopLabel(ITEMS[i].name, ITEMS[i].price)) : i \in {"ring", "amulet"}}
    \cup {Text(t) : t \in {CONFIRM_BUY, INVENTORY, EQUIP, UNEQUIP, ATTACK}}

\* a user who reaches the forest
BystanderUpdates ==
    {START} \cup {Text(t) : t \in ClassLabels \cup {CHOOSE_CLASS, ActionLabel("GoForest")}}

\* a user who reaches the forest and fights the boss there
MultiUpdates ==
    BystanderUpdates \cup {Text(t) : t \in {ActionLabel("FightOgre"), ATTACK}}

\* what a user sends while a handler sleeps
WaitingUpdates == {START, Text(ATTACK)}

Next ==
    \/ \E upd \in ExploreUpdates : Deliver(1, upd)
    \/ \E upd \in WaitingUpdates : Arrive(1, upd)
    \/ Dispatch
    \/ Wake

Spec == Init /\ [][Next]_vars

NextEngines ==
    \/ \E upd \in EngineUpdates : Deliver(1, upd)
    \/ \E upd \in WaitingUpdates : Arrive(1, upd)
    \/ Dispatch
    \/ Wake

SpecEngines == Init /\ [][NextEngines]_vars

NextItems ==
    \/ \E upd \in ItemUpdates : Deliver(1, upd)
    \/ Tick

SpecItems == Init /\ [][NextItems]_vars

NextEquip ==
    \/ \E upd \in EquipUpdates : Deliver(1, upd)
    \/ \E upd \in WaitingUpdates : Arrive(1, upd)
    \/ Dispatch
    \/ Wake

SpecEquip == Init /\ [][NextEquip]_vars

\* one user who fights with basic attacks only
AttackUpdates ==
    {START} \cup {Text(t) : t \in ClassLabels \cup {CHOOSE_CLASS, ATTACK}}
    \cup {Text(ActionLabel(a)) : a \in {"GoForest", "FightWolf", "FightOgre", "FightGolem"}}

NextAttack ==
    \/ \E upd \in AttackUpdates : Deliver(1, upd)
    \/ Wake

SpecAttack == Init /\ [][NextAttack]_vars

\* one user who hunts wolves and takes the quest offered in the forest
QuestUpdates ==
    {START} \cup {Text(t) : t \in ClassLabels \cup {CHOOSE_CLASS, ATTACK}}
    \cup {Text(ActionLabel(a)) : a \in {"GoForest", "FightWolf", "FightGolem", "TakeQuest"}}

NextQuests == \E upd \in QuestUpdates : Deliver(1, upd)

SpecQuests == Init /\ [][NextQuests]_vars

\* one user who poisons the enemies of the forest
DotUpdates ==
    {START} \cup {Text(t) : t \in ClassLabels \cup {CHOOSE_CLASS, ATTACK, FLEE}}
    \cup {Text(ActionLabel(a)) : a \in {"GoForest", "FightWolf", "FightOgre"}}
    \cup {Text(AbilityLabel(a)) : a \in {"Venom", "Mend", "Unknown"}}

NextDots ==
    \/ \E upd \in DotUpdates : Deliver(1, upd)
    \/ Wake

SpecDots == Init /\ [][NextDots]_vars

\* one user who buys potions and drinks them in the battles of the forest
PotionUpdates ==
    {START} \cup {Text(t) : t \in ClassLabels \cup {CHOOSE_CLASS}}
    \cup {Text(ActionLabel(a)) : a \in {"Shop", "GoForest", "FightWolf"}}
    \cup {Text(ShopLabel(ITEMS["potion"].name, ITEMS["potion"].price)),
          Text(BattlePotionLabel(ITEMS["potion"].name, 1)),
          Text(AbilityLabel("Venom"))}
    \cup {Text(t) : t \in {CONFIRM_BUY, BACK, ATTACK, POTIONS}}

NextPotions ==
    \/ \E upd \in PotionUpdates : Deliver(1, upd)
    \/ Wake

SpecPotions == Init /\ [][NextPotions]_vars

\* one user who fights under the effects of a tonic and of a guard
EffectUpdates ==
    {START} \cup {Text(t) : t \in ClassLabels \cup {CHOOSE_CLASS}}
    \cup {Text(ActionLabel(a)) : a \in {"Apothecary", "GoForest", "FightWolf"}}
    \cup {Text(ShopLabel(ITEMS["tonic"].name, ITEMS["tonic"].price)),
          Text(BattlePotionLabel(ITEMS["tonic"].name, 1)),
          Text(AbilityLabel("Guard"))}
    \cup {Text(t) : t \in {CONFIRM_BUY, BACK, TO_CITY, ATTACK, POTIONS, FLEE}}

NextEffects ==
    \/ \E upd \in EffectUpdates : Deliver(1, upd)
    \/ Wake

SpecEffects == Init /\ [][NextEffects]_vars

NextMulti ==
    \/ \E upd \in MultiUpdates : Deliver(1, upd)
    \/ \E upd \in BystanderUpdates : Deliver(2, upd)
    \/ \E u \in Users, upd \in WaitingUpdates : Arrive(u, upd)
    \/ Dispatch
    \/ Wake

SpecMulti == Init /\ [][NextMulti]_vars

\* ---------------------------------------------------------------------------
\* Properties

PlayerIds == DOMAIN player_states
\* the handler of this user's update is inside asyncio.sleep(15)
Sleeping(u) == suspended # <<>> /\ suspended[1].uid = u
\* the Player aggregate and the session state of a user
Sess(u) == <<IF u \in PlayerIds THEN <<player_states[u]>> ELSE <<>>, user_data[u]>>
\* the step taken is what the handler leaves behind for this update of user u
HandledAs(u, upd) ==
    \E r \in Handle(u, upd) :
        /\ player_states' = Put(player_states, SessionKey(u), r.p)
        /\ user_data' = [user_data EXCEPT ![SessionKey(u)] = r.ud]
        /\ replies' = [uid |-> u, out |-> r.out]
\* the texts of the footer buttons of a location
FooterLabels == {STATS, INVENTORY, TELEPORT, BACK, TO_CITY}
\* no mode flag of user_data is set
Exploring(ud) ==
    /\ ~ud.in_battle /\ ~ud.in_story /\ ~ud.in_random_event
    /\ ~ud.in_shop /\ ~ud.in_shop_sell /\ ~ud.in_inventory /\ ~ud.in_city_teleport
Kills(p) == TotalKills(p.kill_count, EnemyIds)
\* the rewards of the quests completed between p and p2
NewQuestGain(p, p2, key) ==
    LET new == SubSeq(p2.completed_quests, Len(p.completed_quests) + 1,
                      Len(p2.completed_quests))
    IN SeqSum([i \in 1..Len(new) |-> Get(QUESTS[new[i]].rewards, key, 0)])

\* C1: after every processed event the stored health of a player with a class
\* lies between 0 and the maximum health, class base health + (level - 1) * 10.
C1_HealthWithinMax ==
    \A u \in PlayerIds :
        LET p == player_states[u]
        IN p.class_name \in ClassIds =>
              /\ 0 <= p.base_stats.health
              /\ p.base_stats.health
                    <= CLASSES[p.class_name].base_stats.health + (p.level - 1) * 10

\* C2: in every reachable state each equipped artifact occurs in the inventory.
C2_EquippedAreOwned ==
    \A u \in PlayerIds :
        \A i \in 1..Len(player_states[u].equipped_artifacts) :
            InSeq(player_states[u].equipped_artifacts[i], player_states[u].inventory)

\* C3: the equipped artifacts never outnumber the slots, and a step whose reply
\* carries the result of equip_artifact, taken with every slot in use, does not
\* report success and leaves equipped_artifacts and inventory as they were.
C3_SlotsRespected ==
    [][\A u \in DOMAIN player_states' :
          LET p2 == player_states'[u]
          IN /\ Len(p2.equipped_artifacts) <= p2.artifact_slots
             /\ ( /\ u \in PlayerIds
                  /\ replies'.uid = u
                  /\ user_data[u].in_inventory
                  /\ \E m \in {"equipped", "no_free_slot", "not_owned",
                               "already_equipped", "not_artifact"} :
                        InSeq(m, replies'.out)
                  /\ Len(player_states[u].equipped_artifacts)
                        = player_states[u].artifact_slots )
                => /\ ~InSeq("equipped", replies'.out)
                   /\ p2.equipped_artifacts = player_states[u].equipped_artifacts
                   /\ p2.inventory = player_states[u].inventory]_vars

\* a player at capacity asked to equip and was refused
C3_Witness ==
    \E u \in PlayerIds :
        /\ replies.uid = u
        /\ InSeq("no_free_slot", replies.out)
        /\ Len(player_states[u].equipped_artifacts) = player_states[u].artifact_slots
        /\ Len(player_states[u].inventory) > player_states[u].artifact_slots

\* the artifacts a player owns, does not wear and has a free slot for
Equippable(p) ==
    {i \in ItemIds : /\ InSeq(i, p.inventory)
                     /\ ~InSeq(i, p.equipped_artifacts)
                     /\ ITEMS[i].type = "artifact"
                     /\ Len(p.equipped_artifacts) < p.artifact_slots}

\* C4: for every reachable player and every owned, unequipped artifact with a
\* free slot, equip_artifact then unequip_artifact both succeed, bring
\* equipped_artifacts back to what it was, and neither changes the inventory.
C4_EquipUnequipRoundTrip ==
    \A u \in PlayerIds :
        \A i \in Equippable(player_states[u]) :
            LET p == player_states[u]
                r1 == equip_artifact(p, i)
                r2 == unequip_artifact(r1.p, i)
            IN /\ r1.ok /\ r2.ok
               /\ InSeq(i, r1.p.equipped_artifacts)
               /\ r2.p.equipped_artifacts = p.equipped_artifacts
               /\ r1.p.inventory = p.inventory
               /\ r2.p.inventory = p.inventory

\* a player wearing one artifact has just taken the other one off again and
\* could put it on once more
C4_Witness ==
    \E u \in PlayerIds :
        /\ replies.uid = u
        /\ InSeq("unequipped", replies.out)
        /\ Len(player_states[u].equipped_artifacts) = 1
        /\ Equippable(player_states[u]) # {}

\* C5: the step in which the enemy turn brings the battle's player health to 0
\* or below ends battle mode, empties active_effects, sets the health to the
\* maximum, moves the player to the recovery location and suspends the handler
\* with the location of the battle as its target; the location does not change
\* when a battle begins or goes on; while the handler sleeps the player stays at
\* the recovery location, and the step that ends the sleep places the player at
\* the target with no mode flag set.
C5_DefeatRecovery ==
    [][\A u \in PlayerIds :
          LET p == player_states[u]
              p2 == player_states'[u]
              ud == user_data[u]
              ud2 == user_data'[u]
          IN /\ ( /\ ud.in_battle /\ ud.battle[1].p_hp > 0
                  /\ ud2.battle # <<>> /\ ud2.battle[1].p_hp <= 0 )
                => /\ ~ud2.in_battle
                   /\ p2.active_effects = <<>>
                   /\ p2.base_stats.health = get_max_health(p2)
                   /\ p2.location = "player_camp"
                   /\ suspended' = <<[uid |-> u, target |-> p.location]>>
             /\ ud2.in_battle => p2.location = p.location
             /\ (Sleeping(u) /\ Sleeping(u)') => p2.location = "player_camp"
             /\ (Sleeping(u) /\ ~Sleeping(u)')
                => /\ p2.location = suspended[1].target
                   /\ Exploring(ud2)
             /\ (p.location # "player_camp" /\ p2.location = "player_camp")
                => Sleeping(u)']_vars

\* a player defeated in the forest, which is no city, is back in the forest
C5_Witness ==
    \E u \in PlayerIds :
        /\ replies = [uid |-> u, out |-> <<"rested", "location">>]
        /\ player_states[u].location = "forest"
        /\ player_states[u].base_stats.health = get_max_health(player_states[u])
        /\ Exploring(user_data[u])

\* C6: while the handler of a user's defeat sleeps, nothing changes that user's
\* Player or session state, and the sleep ends only by lose_battle going on to
\* relocate the player.
C6_NoInputDuringRecovery ==
    [][\A u \in Users :
          /\ (Sleeping(u) /\ Sleeping(u)') => Sess(u)' = Sess(u)
          /\ (Sleeping(u) /\ ~Sleeping(u)')
                => /\ replies' = [uid |-> u, out |-> <<"rested", "location">>]
                   /\ player_states'[u].location = suspended[1].target]_vars

\* the sleeping user has sent /start, which waits
C6_Witness ==
    \E u \in Users :
        /\ Sleeping(u)
        /\ player_states[u].location = "player_camp"
        /\ update_queue # <<>>
        /\ Head(update_queue) = [uid |-> u, upd |-> START]

\* C7: while one user's handler sleeps after a defeat, a waiting update of
\* another user can be handled.
C7_OthersProcessedDuringRecovery ==
    \A u \in Users :
        ( /\ Sleeping(u)
          /\ update_queue # <<>>
          /\ Head(update_queue).uid # u )
        => ENABLED Dispatch

\* C8: a step changes the Player or the session state of no user but the one
\* whose update it handles.
C8_SessionsIndependent ==
    [][\A u \in Users : Sess(u)' # Sess(u) => replies'.uid = u]_vars

\* user 2's update was handled while user 1 was in a battle
C8_Witness ==
    /\ PlayerIds = Users
    /\ user_data[1].in_battle
    /\ player_states[2].location = "forest"
    /\ replies.uid = 2
    /\ replies.out # <<>>

\* C9: a victory over an enemy whose experience, added to the experience held
\* before the battle, reaches level * 100 raises the level in that step.
C9_RewardBeforeLevelUp ==
    [][\A u \in PlayerIds :
          LET p == player_states[u]
              p2 == player_states'[u]
              ud == user_data[u]
          IN ( /\ ud.in_battle
               /\ Kills(p2) > Kills(p)
               /\ p.experience + EnemyOrBoss(ud.battle[1].e_id).experience
                     >= p.level * 100 )
             => p2.level = p.level + 1]_vars

\* C10: a step of a battle that records a kill adds the enemy's experience and
\* 80% of it, rounded down, as gold, plus 100 gold for a boss, once, next to
\* the rewards of the quests it completes and the experience a level-up takes;
\* every other step of a battle leaves experience, gold and level alone.
C10_BattleRewardOnce ==
    [][\A u \in PlayerIds :
          LET p == player_states[u]
              p2 == player_states'[u]
              ud == user_data[u]
              enemy == EnemyOrBoss(ud.battle[1].e_id)
          IN ud.in_battle =>
                IF Kills(p2) > Kills(p)
                THEN /\ Kills(p2) = Kills(p) + 1
                     /\ p2.gold = p.gold + (enemy.experience * 8) \div 10
                                  + (IF Get(enemy, "is_boss", FALSE)
                                     THEN BOSS_GOLD_BONUS ELSE 0)
                                  + NewQuestGain(p, p2, "gold")
                     /\ p2.experience
                           + (IF p2.level > p.level THEN p.level * 100 ELSE 0)
                        = p.experience + enemy.experience
                          + NewQuestGain(p, p2, "experience")
                ELSE /\ p2.gold = p.gold
                     /\ p2.experience = p.experience
                     /\ p2.level = p.level]_vars

\* the boss has been beaten in exploration after a victory in an event chain
C10_Witness ==
    \E u \in PlayerIds :
        /\ replies.uid = u
        /\ InSeq("boss_defeated", replies.out)
        /\ player_states[u].kill_count["wolf"] >= 1
        /\ player_states[u].gold >= BOSS_GOLD_BONUS

\* the phase transitions the enemy of a battle snapshot has left
PhasesLeft(b) ==
    IF Has(b.enemy, "phases") THEN Max(0, Len(b.enemy.phases) + 1 - b.phase) ELSE 0
\* the health the player still has to take from the enemy: that of the
\* current phase and that of the phases to come
HealthLeft(b) ==
    b.e_hp + (IF PhasesLeft(b) = 0 THEN 0
              ELSE SeqSum([i \in 1..PhasesLeft(b) |->
                              b.enemy.phases[b.phase + i - 1].health]))

ObjectivesMet(p, q_id) ==
    \A mob \in DOMAIN QUESTS[q_id].objectives :
        Get(p.kill_count, mob, 0) >= QUESTS[q_id].objectives[mob]

\* C12: after every processed event no active quest has all its objectives
\* met, no quest is both active and completed or listed twice, a quest
\* enters completed_quests only in a step that takes it from active_quests
\* with its objectives met, and a completed quest stays completed.
C12_QuestCompletesWhenMet ==
    [][\A u \in PlayerIds :
          LET p == player_states[u]
              p2 == player_states'[u]
          IN \A q \in QuestIds :
                /\ InSeq(q, p2.active_quests) => ~ObjectivesMet(p2, q)
                /\ ~(InSeq(q, p2.active_quests) /\ InSeq(q, p2.completed_quests))
                /\ Count(q, p2.active_quests) + Count(q, p2.completed_quests) <= 1
                /\ (InSeq(q, p2.completed_quests) /\ ~InSeq(q, p.completed_quests))
                      => InSeq(q, p.active_quests) /\ ObjectivesMet(p2, q)
                /\ InSeq(q, p.completed_quests) => InSeq(q, p2.completed_quests)]_vars

\* the DoTs of the battle snapshot of a user, if there is one
ActiveDots(ud) == IF ud.battle = <<>> THEN <<>> ELSE ud.battle[1].active_dots

\* C13: active_dots never holds two entries of one DoT name, and a step that
\* casts an ability while a battle with active DoTs goes on does not make
\* active_dots longer.
C13_DotsRefresh ==
    [][\A u \in PlayerIds :
          LET dots == ActiveDots(user_data[u])
              dots2 == ActiveDots(user_data'[u])
          IN /\ \A i, j \in 1..Len(dots2) : dots2[i].name = dots2[j].name => i = j
             /\ ( /\ user_data[u].in_battle
                  /\ dots # <<>>
                  /\ replies'.uid = u
                  /\ InSeq("ability", replies'.out) )
                => Len(dots2) <= Len(dots)]_vars

\* the DoT ability was cast a second time while its DoT was active
C13_Witness ==
    \E u \in PlayerIds :
        /\ user_data[u].in_battle
        /\ user_data[u].battle[1].skill_uses["Venom"] = 2
        /\ Len(user_data[u].battle[1].active_dots) = 1
        /\ user_data[u].battle[1].active_dots[1].duration = 2
        /\ replies = [uid |-> u, out |-> <<"ability", "dot_damage", "enemy_hits">>]

C15_UseLimit ==
    [][\A u \in PlayerIds :
          LET ud == user_data[u]
              ud2 == user_data'[u]
          IN /\ ud2.battle # <<>> =>
                   \A a \in AbilityNames :
                       ud2.battle[1].skill_uses[a] <= Get(ABILITIES[a], "max_uses", 99)
             /\ (ud.in_battle /\ ud2.in_battle /\ ud2.battle[1].phase >= ud.battle[1].phase)
                   => \A a \in AbilityNames :
                         /\ ud2.battle[1].skill_uses[a] >= ud.battle[1].skill_uses[a]
                         /\ ud2.battle[1].skill_uses[a] > ud.battle[1].skill_uses[a]
                               => ud.battle[1].skill_uses[a]
                                     < Get(ABILITIES[a], "max_uses", 99)
             /\ ( /\ ud.in_battle
                  /\ replies'.uid = u
                  /\ InSeq("ability_exhausted", replies'.out) )
                   => /\ replies'.out = <<"ability_exhausted">>
                      /\ ud2 = ud
                      /\ player_states'[u] = player_states[u]
                      /\ \E a \in AbilityNames :
                            ud.battle[1].skill_uses[a] = Get(ABILITIES[a], "max_uses", 99)]_vars

\* an exhausted ability was rejected in the second phase of the boss
C15_Witness ==
    \E u \in PlayerIds :
        /\ user_data[u].in_battle
        /\ user_data[u].battle[1].phase = 2
        /\ user_data[u].battle[1].skill_uses["Mend"] = 1
        /\ replies = [uid |-> u, out |-> <<"ability_exhausted">>]

\* C16: a confirmed purchase with gold below the price changes neither the
\* Player nor the session; with gold at or above the price it lowers gold by
\* exactly the price and appends one copy of the item to the inventory; gold
\* is never negative.  (clock' = clock: a step of a handler, not of the time.)
C16_PurchaseNeedsGold ==
    [][\A u \in PlayerIds :
          LET p == player_states[u]
              p2 == player_states'[u]
              item_id == user_data[u].shop_confirm_buy
          IN /\ p2.gold >= 0
             /\ (clock' = clock /\ replies'.uid = u /\ InSeq("not_enough_gold", replies'.out))
                   => /\ item_id \in ItemIds
                      /\ p.gold < ITEMS[item_id].price
                      /\ p2 = p
                      /\ user_data'[u] = user_data[u]
             /\ (clock' = clock /\ replies'.uid = u /\ InSeq("bought", replies'.out))
                   => /\ item_id \in ItemIds
                      /\ p.gold >= ITEMS[item_id].price
                      /\ p2.gold = p.gold - ITEMS[item_id].price
                      /\ p2.inventory = Append(p.inventory, item_id)
                      /\ p2 = [p EXCEPT !.gold = p2.gold, !.inventory = p2.inventory]]_vars

\* a purchase was refused for lack of gold after earlier purchases went through
C16_Witness ==
    \E u \in PlayerIds :
        /\ replies.uid = u
        /\ InSeq("not_enough_gold", replies.out)
        /\ user_data[u].shop_confirm_buy \in ItemIds
        /\ player_states[u].gold < ITEMS[user_data[u].shop_confirm_buy].price
        /\ player_states[u].gold < 50

\* ---- the fatigue methods of Player, called in any order ----

FatigueLevels == {0, 20, 60, 100}
FatigueCosts == {0, 40, 50, 130}

\* the call made now, after the one made before it
Called(op, arg, before) ==
    LET call == [op |-> op, arg |-> arg, before |-> before, at |-> clock * ClockStep]
    IN IF probe = <<>> THEN <<call>> ELSE <<probe[Len(probe)], call>>

InitFatigue ==
    /\ \E f \in FatigueLevels :
          player_states = [u \in {1} |-> [Player(1, 0) EXCEPT !.fatigue = f]]
    /\ user_data = [u \in Users |-> EmptyUserData]
    /\ update_queue = <<>>
    /\ suspended = <<>>
    /\ clock = 0
    /\ replies = [uid |-> 0, out |-> <<>>]
    /\ content = ContentTables
    /\ probe = <<>>

UpdateFatigue(u) ==
    /\ player_states' = [player_states EXCEPT ![u] = update_fatigue(@, clock * ClockStep)]
    /\ probe' = Called("update_fatigue", 0, player_states[u])
    /\ UNCHANGED <<user_data, update_queue, suspended, clock, replies, content>>

CanDoEvent(u, cost) ==
    /\ player_states' =
          [player_states EXCEPT ![u] = can_do_event(@, cost, clock * ClockStep).p]
    /\ probe' = Called("can_do_event", cost, player_states[u])
    /\ UNCHANGED <<user_data, update_queue, suspended, clock, replies, content>>

SpendFatigue(u, amount) ==
    /\ player_states' =
          [player_states EXCEPT ![u] = spend_fatigue(@, amount, clock * ClockStep)]
    /\ probe' = Called("spend_fatigue", amount, player_states[u])
    /\ UNCHANGED <<user_data, update_queue, suspended, clock, replies, content>>

\* time passes between two calls
Elapse ==
    /\ clock < MaxWait
    /\ clock' = clock + 1
    /\ UNCHANGED <<player_states, user_data, update_queue, suspended, replies, probe,
                   content>>

NextFatigue ==
    \/ UpdateFatigue(1)
    \/ \E cost \in FatigueCosts : CanDoEvent(1, cost)
    \/ \E amount \in FatigueCosts : SpendFatigue(1, amount)
    \/ Elapse

SpecFatigue == InitFatigue /\ [][NextFatigue]_vars

\* C17: whatever update_fatigue, can_do_event and spend_fatigue calls are
\* made while the clock does not go back, fatigue stays within 0..100, and an
\* update_fatigue that follows an update_fatigue at the same clock reading
\* leaves the Player as the first one left it.
C17_FatigueInRange ==
    \A u \in DOMAIN player_states :
        /\ player_states[u].fatigue >= 0
        /\ player_states[u].fatigue <= 100
        /\ ( /\ Len(probe) = 2
             /\ probe[1].op = "update_fatigue"
             /\ probe[2].op = "update_fatigue"
             /\ probe[1].at = probe[2].at )
           => player_states[u] = probe[2].before

\* regeneration was cut at 100 and the spending after it was cut at 0
C17_Witness ==
    /\ Len(probe) = 2
    /\ probe[1].op = "update_fatigue"
    /\ probe[1].before.fatigue
          + ((probe[1].at - probe[1].before.last_fatigue_update) * 100) \div 3600 > 100
    /\ probe[2].op = "spend_fatigue"
    /\ probe[2].before.fatigue = 100
    /\ probe[2].before.fatigue - probe[2].arg < 0
    /\ player_states[1].fatigue = 0

\* C18: from fatigue f at time t, spend_fatigue(s) and then update_fatigue
\* d seconds later give fatigue min(100, max(0, f - s) + d*100/3600).
C18_SpendThenRegenerate ==
    ( /\ Len(probe) = 2
      /\ probe[1].op = "spend_fatigue"
      /\ probe[1].before.last_fatigue_update = probe[1].at
      /\ probe[2].op = "update_fatigue" )
    => LET f == probe[1].before.fatigue
           s == probe[1].arg
           d == probe[2].at - probe[1].at
       IN player_states[1].fatigue = Min(100, Max(0, f - s) + (d * 100) \div 3600)

\* 40 spent from 100, then 1800 s of rest: 100 again
C18_Witness ==
    /\ Len(probe) = 2
    /\ probe[1].op = "spend_fatigue"
    /\ probe[1].before.fatigue = 100
    /\ probe[1].before.last_fatigue_update = probe[1].at
    /\ probe[1].arg = 40
    /\ probe[2].op = "update_fatigue"
    /\ probe[2].at - probe[1].at = 1800
    /\ player_states[1].fatigue = 100

\* ---- calculate_single_layer_damage, called on its own ----

Multipliers == {5, 10, 15, 25}          \* tenths
ResistanceLevels == {0, 3, 5, 8, 10, 12}    \* tenths
DamageTypes == {"physical", "fire"}

InitDamage ==
    /\ player_states = [u \in {} |-> 0]
    /\ user_data = [u \in Users |-> EmptyUserData]
    /\ update_queue = <<>>
    /\ suspended = <<>>
    /\ clock = 0
    /\ replies = [uid |-> 0, out |-> <<>>]
    /\ content = ContentTables
    /\ \E a \in 1..MaxAttack, m \in Multipliers, t \in DamageTypes, r \in ResistanceLevels :
          probe = <<[op |-> "arguments", base_attack |-> a, multiplier |-> m,
                     dmg_type |-> t, resistances |-> [physical |-> r], result |-> 0]>>

\* one call with the arguments drawn, and one of the values it can return
CalculateDamage ==
    /\ probe # <<>>
    /\ probe[1].op \in {"arguments", "calculate_single_layer_damage"}
    /\ \E x \in calculate_single_layer_damage(probe[1].base_attack, probe[1].multiplier,
                                              probe[1].dmg_type, probe[1].resistances) :
          probe' = <<[probe[1] EXCEPT !.op = "calculate_single_layer_damage",
                                      !.result = x]>>
    /\ UNCHANGED <<player_states, user_data, update_queue, suspended, clock, replies,
                   content>>

NextDamage == CalculateDamage

SpecDamage == InitDamage /\ [][NextDamage]_vars

\* C19: for attack a > 0, multiplier m > 0 and resistance r in [0,1] of the
\* attack's type the value returned lies between max(1, floor(a*m*(1-r)*0.8))
\* and max(1, ceil(a*m*(1-r)*1.2)); it is at least 1 in every case and 1 for
\* a fully resisted type.  (m and r in tenths: a*m*(10-r) is in thousandths
\* after the factors 8 and 12.)
C19_DamageWithinVariance ==
    (probe # <<>> /\ probe[1].op = "calculate_single_layer_damage")
    => LET a == probe[1].base_attack
           m == probe[1].multiplier
           r == IF probe[1].dmg_type \in DOMAIN probe[1].resistances
                THEN probe[1].resistances[probe[1].dmg_type] ELSE 0
           lo == (a * m * (10 - r) * 8) \div 1000
           hi == (a * m * (10 - r) * 12 + 999) \div 1000
       IN /\ probe[1].result >= 1
          /\ r <= 10 => /\ probe[1].result >= Max(1, lo)
                        /\ probe[1].result <= Max(1, hi)
          /\ r >= 10 => probe[1].result = 1

\* C20: a step raises the level by at most 1 and only by recording a kill;
\* the level rises only when the experience held when win_battle looks at it
\* (with the rewards of the quests just completed) is at least level * 100,
\* that much is then taken from it, base attack grows by 2 and base health
\* by 10 over the health regenerated by the victory; experience is never
\* negative.
C20_OneLevelPerVictory ==
    [][\A u \in PlayerIds :
          LET p == player_states[u]
              p2 == player_states'[u]
              ud == user_data[u]
              at_check == p.experience + NewQuestGain(p, p2, "experience")
              max_hp == get_max_health(p)
          IN /\ p2.experience >= 0
             /\ p2.level <= p.level + 1
             /\ p2.level >= p.level
             /\ p2.level > p.level =>
                   /\ ud.in_battle
                   /\ Kills(p2) = Kills(p) + 1
                   /\ InSeq("level_up", replies'.out)
                   /\ at_check >= p.level * 100
                   /\ p2.experience = at_check - p.level * 100
                                      + EnemyOrBoss(ud.battle[1].e_id).experience
                   /\ p2.base_stats.attack = p.base_stats.attack + 2
                   /\ p2.base_stats.health
                         = Min(max_hp, p.base_stats.health + (max_hp * 3) \div 10) + 10]_vars

\* the quest's 300 experience came in before the level was looked at: one
\* level up, and what is left is still beyond the next threshold
C20_Witness ==
    \E u \in PlayerIds :
        /\ replies.uid = u
        /\ InSeq("level_up", replies.out)
        /\ InSeq("wolf_hunt", player_states[u].completed_quests)
        /\ player_states[u].level = 2
        /\ player_states[u].experience >= 2 * player_states[u].level * 100 - 100

\* C21: in exploration a label starts a location action only if the action is
\* among those displayed for the location: the story action of a completed
\* storyline and an action towards a capital that is not unlocked are not
\* executed.
C21_OnlyDisplayedActions ==
    [][\A u \in PlayerIds :
          LET p == player_states[u]
              p2 == player_states'[u]
              ud == user_data[u]
          IN ( /\ Exploring(ud)
               /\ p.location \in LocationIds
               /\ clock' = clock
               /\ replies'.uid = u )
             => \A i \in DOMAIN LOCATIONS[p.location].actions :
                   LET action == LOCATIONS[p.location].actions[i]
                       executed ==
                           \/ /\ action.type = "story"
                              /\ \E t \in {"story_dialogue", "story_battle", "story_text"} :
                                    InSeq(t, replies'.out)
                           \/ /\ action.type = "location"
                              /\ action.target = "capital_city"
                              /\ p.location # "capital_city"
                              /\ p2.location = "capital_city"
                   IN executed => action.text \in DisplayedActions(p, p.location)]_vars

\* C22: in exploration a text that is no footer button and no action of the
\* current location shows the current location again and leaves location,
\* stats, inventory, equipment, gold, quests and fatigue as they were, with
\* the session still in exploration.
C22_UnmatchedRedisplays ==
    [][\A u \in PlayerIds :
          \A upd \in {x \in ExploreUpdates : x.cmd = "text"} \cup {Text(OTHER_TEXT)} :
              LET p == player_states[u]
                  p2 == player_states'[u]
                  ud == user_data[u]
              IN ( /\ Exploring(ud)
                   /\ ud.shop_confirm_buy = NONE
                   /\ ud.shop_confirm_sell = NONE
                   /\ p.location \in LocationIds
                   /\ upd.text \notin FooterLabels
                   /\ FindAction(p.location, upd.text) = <<>>
                   /\ clock' = clock
                   /\ HandledAs(u, upd) )
                 => /\ replies'.out = <<"location">>
                    /\ Exploring(user_data'[u])
                    /\ p2.location = p.location
                    /\ p2.base_stats = p.base_stats
                    /\ p2.inventory = p.inventory
                    /\ p2.equipped_artifacts = p.equipped_artifacts
                    /\ p2.gold = p.gold
                    /\ p2.active_quests = p.active_quests
                    /\ p2.completed_quests = p.completed_quests
                    /\ p2.fatigue = p.fatigue
                    /\ p2.level = p.level
                    /\ p2.experience = p.experience]_vars

\* a player who never left the village was shown it again, and not by /start
C22_Witness ==
    \E u \in PlayerIds :
        /\ player_states[u].class_name \in ClassIds
        /\ player_states[u].location = "village_square"
        /\ player_states[u].visited_locations = {"village_square"}
        /\ Exploring(user_data[u])
        /\ replies = [uid |-> u, out |-> <<"location">>]

\* C23: with k further phases declared, a battle records its kill and pays
\* its rewards only when the phase counter stands at k + 1; a death before
\* that raises the counter by one, loads health, attack, name, image and
\* resistances of the next phase into the battle's copy of the enemy, keeps
\* the session in battle and leaves experience, gold, level, kills, quests
\* and inventory alone; between updates the enemy of a battle has health left.
C23_VictoryAfterLastPhase ==
    [][\A u \in PlayerIds :
          LET p == player_states[u]
              p2 == player_states'[u]
              ud == user_data[u]
              ud2 == user_data'[u]
              b == ud.battle[1]
              b2 == ud2.battle[1]
              declared == EnemyOrBoss(b.e_id)
              k == IF Has(declared, "phases") THEN Len(declared.phases) ELSE 0
          IN (ud.in_battle /\ clock' = clock) =>
                /\ ud2.in_battle => b2.e_hp > 0
                /\ Kills(p2) > Kills(p) =>
                      /\ b.phase = k + 1
                      /\ ~ud2.in_battle
                /\ (p2.experience # p.experience \/ p2.gold # p.gold)
                      => Kills(p2) > Kills(p)
                /\ b2.phase # b.phase =>
                      LET phase_data == declared.phases[b.phase]
                      IN /\ b.phase <= k
                         /\ b2.phase = b.phase + 1
                         /\ ud2.in_battle
                         /\ InSeq("phase", replies'.out)
                         /\ b2.e_hp = phase_data.health
                         /\ b2.enemy.attack = phase_data.attack
                         /\ b2.enemy.name = phase_data.name
                         /\ b2.enemy.image = phase_data.image
                         /\ Get(b2.enemy, "resistances", <<>>)
                               = Get(phase_data, "resistances",
                                     Get(b.enemy, "resistances", <<>>))
                         /\ [p2 EXCEPT !.inventory = p.inventory,
                                       !.base_stats = p.base_stats,
                                       !.active_effects = p.active_effects] = p
                         /\ Kills(p2) = Kills(p)]_vars

\* the boss fell twice: once into its second phase, once for good
C23_Witness ==
    \E u \in PlayerIds :
        /\ ~user_data[u].in_battle
        /\ user_data[u].battle # <<>>
        /\ user_data[u].battle[1].e_id = "ogre"
        /\ user_data[u].battle[1].phase = 2
        /\ user_data[u].battle[1].enemy.name = "Enraged Ogre"
        /\ replies.uid = u
        /\ InSeq("boss_defeated", replies.out)
        /\ player_states[u].kill_count["ogre"] = 1

\* the messages that tell of the enemy's death
DeathTags == {"phase", "victory", "boss_defeated"}

DotDamage(b) == SeqSum([i \in 1..Len(b.active_dots) |-> b.active_dots[i].damage])

\* C25: between updates every active DoT has at least one tick left; an
\* update that runs the DoT step takes the stored damage of each DoT from the
\* enemy's health once (nothing else when the player did no damage), takes
\* one tick from each DoT that was not cast again and drops those left with
\* none, with the stored damage unchanged; when the DoT step brings the
\* enemy's health to 0 or below, the enemy does not attack.
C25_DotStep ==
    [][\A u \in PlayerIds :
          LET ud == user_data[u]
              ud2 == user_data'[u]
              b == ud.battle[1]
              b2 == ud2.battle[1]
              out == replies'.out
              ticks == InSeq("dot_damage", out)
              same_phase == ud2.in_battle /\ b2.phase = b.phase
              recast == b2.skill_uses # b.skill_uses
          IN /\ ud2.in_battle =>
                   \A j \in DOMAIN b2.active_dots : b2.active_dots[j].duration >= 1
             /\ (ud.in_battle /\ clock' = clock /\ replies'.uid = u /\ Len(out) >= 1) =>
                   /\ (ticks /\ ~recast) =>
                         /\ \A i \in DOMAIN b.active_dots :
                               LET dot == b.active_dots[i]
                                   kept == {j \in DOMAIN b2.active_dots :
                                               b2.active_dots[j].name = dot.name}
                               IN IF dot.duration > 1
                                  THEN \E j \in kept :
                                          b2.active_dots[j] =
                                             [dot EXCEPT !.duration = @ - 1]
                                  ELSE kept = {}
                         /\ Len(b2.active_dots) <= Len(b.active_dots)
                         /\ (same_phase /\ out[1] \in {"empty", "unknown_ability"})
                               => b2.e_hp = b.e_hp - DotDamage(b)
                         /\ (same_phase /\ out[1] = "attack")
                               => b2.e_hp <= b.e_hp - DotDamage(b) - 1
                   /\ (ud2.in_battle /\ ~ticks /\ ~recast /\ out[1] # "fled")
                         => b2.active_dots = b.active_dots
                   /\ \A n \in 1..(Len(out) - 1) :
                         (out[n] = "dot_damage" /\ out[n + 1] \in DeathTags)
                            => /\ ~InSeq("enemy_hits", out)
                               /\ b2.p_hp >= b.p_hp
                   /\ (ticks /\ same_phase /\ ~(\E t \in DeathTags : InSeq(t, out)))
                         => /\ InSeq("enemy_hits", out)
                            /\ b2.e_hp > 0]_vars

\* the poison took the last health of the boss's first phase after a text no
\* handler knows: the boss is in its second phase and has not hit back
C25_Witness ==
    \E u \in PlayerIds :
        /\ user_data[u].in_battle
        /\ user_data[u].battle[1].phase = 2
        /\ replies.uid = u
        /\ replies.out = <<"empty", "dot_damage", "phase">>

\* C26: a potion drunk in battle takes exactly one copy of it from the
\* inventory and ends the player's turn: the same update has no attack of
\* the player, runs the DoT step and then the enemy's turn; a potion that
\* only heals is refused while the battle health is at or above the maximum
\* health, and then nothing is removed and no turn is spent.
C26_PotionEndsTurn ==
    [][\A u \in PlayerIds :
          LET p == player_states[u]
              p2 == player_states'[u]
              ud == user_data[u]
              ud2 == user_data'[u]
              b == ud.battle[1]
              b2 == ud2.battle[1]
              out == replies'.out
              heal_only(item_id) ==
                  /\ Get(Get(ITEMS[item_id], "stats", <<>>), "health", 0) > 0
                  /\ ~Has(ITEMS[item_id], "buffs")
          IN (ud.in_battle /\ clock' = clock /\ replies'.uid = u) =>
                /\ InSeq("potion_drunk", out) =>
                      /\ ud.battle_potion_menu
                      /\ out[1] = "potion_drunk"
                      /\ ~InSeq("attack", out) /\ ~InSeq("ability", out)
                      /\ \E item_id \in ItemIds :
                            /\ InSeq(item_id, p.inventory)
                            /\ p2.inventory = Remove(item_id, p.inventory)
                            /\ Count(item_id, p2.inventory)
                                  = Count(item_id, p.inventory) - 1
                            /\ heal_only(item_id) => b.p_hp < get_max_health(p)
                      /\ Len(p2.inventory) = Len(p.inventory) - 1
                      /\ (b.active_dots # <<>>) = InSeq("dot_damage", out)
                      /\ (ud2.in_battle /\ b2.phase = b.phase)
                            => b2.e_hp = b.e_hp - DotDamage(b)
                      /\ \/ InSeq("enemy_hits", out)
                         \/ b.e_hp - DotDamage(b) <= 0
                /\ InSeq("health_full", out) =>
                      /\ out = <<"health_full">>
                      /\ b.p_hp >= get_max_health(p)
                      /\ p2 = p
                      /\ ud2 = ud
                /\ p2.inventory # p.inventory =>
                      InSeq("potion_drunk", out) \/ ~ud2.in_battle]_vars

\* a potion was drunk while the enemy was poisoned: the poison ticked and
\* the enemy hit back
C26_Witness ==
    \E u \in PlayerIds :
        /\ user_data[u].in_battle
        /\ player_states[u].inventory = <<>>
        /\ replies = [uid |-> u, out |-> <<"potion_drunk", "dot_damage", "enemy_hits">>]

\* C27: fleeing ends the battle in the same update with no DoT tick and no
\* enemy turn; experience, gold, inventory, level, kills, quests and the
\* player's health stay as they were and the session is in exploration.
C27_FleeGrantsNothing ==
    [][\A u \in PlayerIds :
          LET p == player_states[u]
              p2 == player_states'[u]
              ud == user_data[u]
              ud2 == user_data'[u]
              out == replies'.out
          IN ( /\ ud.in_battle
               /\ clock' = clock
               /\ replies'.uid = u
               /\ InSeq("fled", out) )
             => /\ ~ud.battle_potion_menu
                /\ ~InSeq("dot_damage", out)
                /\ ~InSeq("enemy_hits", out)
                /\ ud2.battle = ud.battle
                /\ ~ud2.in_battle
                /\ ~ud2.in_battle_from_event
                /\ Exploring(ud2)
                /\ p2.location = p.current_city
                /\ p2.experience = p.experience
                /\ p2.gold = p.gold
                /\ p2.level = p.level
                /\ p2.inventory = p.inventory
                /\ p2.kill_count = p.kill_count
                /\ p2.active_quests = p.active_quests
                /\ p2.completed_quests = p.completed_quests
                /\ p2.base_stats = p.base_stats]_vars

\* the player fled from a poisoned and wounded boss after being hit
C27_Witness ==
    \E u \in PlayerIds :
        /\ ~user_data[u].in_battle
        /\ user_data[u].battle # <<>>
        /\ user_data[u].battle[1].active_dots # <<>>
        /\ user_data[u].battle[1].p_hp < get_max_health(player_states[u])
        /\ player_states[u].location = "village_square"
        /\ replies.uid = u
        /\ InSeq("fled", replies.out)

\* the effects of p after one tick, as the claim words it
OneTickLess(effects) ==
    SelectSeq([i \in 1..Len(effects) |-> [effects[i] EXCEPT !.duration = @ - 1]],
              LAMBDA e : e.duration >= 1)

\* C28: the update that ends a battle by victory or by flight takes exactly
\* 1 from the duration of every active effect and removes those that reach
\* 0 or less; a defeat removes them all; no other update lowers a duration:
\* it leaves the effects as they were or adds one at the end.  So the effect
\* of duration 1 that an ability adds in a battle is gone when no battle is on.
C28_EffectsTickPerBattle ==
    [][\A u \in PlayerIds :
          LET p == player_states[u]
              p2 == player_states'[u]
              ud == user_data[u]
              ud2 == user_data'[u]
              out == replies'.out
              won == InSeq("victory", out) \/ InSeq("boss_defeated", out)
              fled == InSeq("fled", out)
              lost == InSeq("defeat", out)
          IN /\ ~ud2.in_battle =>
                   \A i \in DOMAIN p2.active_effects :
                       /\ p2.active_effects[i].name \notin AbilityNames
                       /\ p2.active_effects[i].duration >= 1
             /\ (clock' = clock /\ replies'.uid = u) =>
                   IF ud.in_battle /\ (won \/ fled)
                   THEN /\ p2.active_effects = OneTickLess(p.active_effects)
                        /\ ~ud2.in_battle
                   ELSE IF ud.in_battle /\ lost
                   THEN p2.active_effects = <<>>
                   ELSE /\ Len(p2.active_effects) >= Len(p.active_effects)
                        /\ SubSeq(p2.active_effects, 1, Len(p.active_effects))
                              = p.active_effects
                        /\ ud.in_battle => ud2.in_battle]_vars

\* a battle fought under a tonic and a guard was won: the guard is gone and
\* the tonic has one battle left
C28_Witness ==
    \E u \in PlayerIds :
        /\ ~user_data[u].in_battle
        /\ user_data[u].battle # <<>>
        /\ user_data[u].battle[1].skill_uses["Guard"] = 1
        /\ replies.uid = u
        /\ InSeq("victory", replies.out)
        /\ Len(player_states[u].active_effects) = 1
        /\ player_states[u].active_effects[1].name = ITEMS["tonic"].name
        /\ player_states[u].active_effects[1].duration = 1

\* C29: an update that ends by showing a location leaves the session in
\* exploration with every payload of a mode cleared: battle snapshot,
\* event-battle marker, story cursor, event-chain cursor, shop item list,
\* viewed item and pending purchase or sale.
C29_ShowLocationClearsPayload ==
    [][\A u \in PlayerIds :
          LET ud2 == user_data'[u]
              out == replies'.out
          IN ( /\ clock' = clock
               /\ replies'.uid = u
               /\ Len(out) >= 1
               /\ out[Len(out)] = "location" )
             => /\ Exploring(ud2)
                /\ ~ud2.battle_potion_menu
                /\ ud2.viewing_item = NONE
                /\ ud2.shop_confirm_buy = NONE
                /\ ud2.shop_confirm_sell = NONE
                /\ ud2.current_event_chain = <<>>
                /\ ~ud2.in_battle_from_event
                /\ ud2.battle = <<>>
                /\ ud2.current_story = <<>>
                /\ ud2.current_shop_items = <<>>]_vars

\* one user who asks for random events in the village, one after another
EventUpdates ==
    {START} \cup {Text(t) : t \in ClassLabels \cup {CHOOSE_CLASS, ActionLabel("Events")}}
    \cup {Text(t) : t \in {MORE_EVENTS, RETURN_TO_TOWN, CONTINUE, ATTACK}}

NextEvents ==
    \/ \E upd \in EventUpdates : Deliver(1, upd)
    \/ Wake
    \/ Tick

SpecEvents == Init /\ [][NextEvents]_vars

\* the replies with which start_random_event opens an event
EventStartTags == {"event_reward", "event_dialogue"}
\* the fatigue costs of the events of the player's city
EventCosts(p) ==
    IF CityKey(p.current_city) = "village"
    THEN {Get(EventById(id), "fatigue_cost", 0) : id \in EventIds}
    ELSE {}

\* C30: an event starts only if its fatigue cost is at most the freshly
\* updated fatigue, and fatigue then drops by exactly that cost; when no event
\* is affordable the request is rejected and, regeneration of fatigue apart,
\* the player and the session (its mode included) are as before.
C30_EventNeedsFatigue ==
    [][\A u \in PlayerIds :
          LET p == player_states[u]
              p2 == player_states'[u]
              fresh == update_fatigue(p, clock * ClockStep)
              out == replies'.out
          IN ( /\ clock' = clock /\ replies'.uid = u /\ Len(out) >= 1 )
             => /\ (\E i \in 1..Len(out) : out[i] \in EventStartTags)
                    => \E c \in EventCosts(p) :
                          /\ c <= fresh.fatigue
                          /\ p2.fatigue = fresh.fatigue - c
                /\ out = <<"too_tired">>
                    => /\ \A c \in EventCosts(p) : c > fresh.fatigue
                       /\ p2 = fresh
                       /\ user_data'[u] = user_data[u]]_vars

\* C31: a chain event in progress is left only at the end of its scene list
\* or by the return-to-town label; that label, sent while the chain cursor is
\* active, exits the chain to the current city.
C31_ChainExits ==
    [][\A u \in PlayerIds :
          LET p == player_states[u]
              p2 == player_states'[u]
              ud == user_data[u]
              ud2 == user_data'[u]
              byReturn == HandledAs(u, Text(RETURN_TO_TOWN))
          IN ( /\ clock' = clock /\ replies'.uid = u
               /\ ud.in_random_event /\ ~ud.in_battle
               /\ ud.current_event_chain # <<>> )
             => /\ byReturn => /\ ud2.current_event_chain = <<>>
                               /\ Exploring(ud2)
                               /\ p2.location = p.current_city
                /\ ud2.current_event_chain = <<>>
                     => \/ byReturn
                        \/ \E i \in 1..Len(replies'.out) :
                              replies'.out[i] = "event_done"]_vars

\* the step is a Victory of player u over the enemy of the battle in progress
WonBattle(u) ==
    /\ clock' = clock /\ replies'.uid = u
    /\ user_data[u].in_battle /\ user_data[u].battle # <<>>
    /\ user_data'[u] # user_data[u]
    /\ \E i \in 1..Len(replies'.out) : replies'.out[i] \in {"victory", "boss_defeated"}

Replied(u, tag) ==
    /\ clock' = clock /\ replies'.uid = u
    /\ u \in PlayerIds
    /\ <<player_states'[u], user_data'[u]>> # <<player_states[u], user_data[u]>>
    /\ \E i \in 1..Len(replies'.out) : replies'.out[i] = tag

\* C34: no operation mutates the content tables: a battle always starts with
\* the enemy's table entry (phase-1 health, attack, name and resistances),
\* also after an earlier battle went through its phases, and a chosen class
\* gives the class's base stats whatever happened to players' stats before.
C34_TablesNeverMutated ==
    [][/\ content' = ContentTables
       /\ \A u \in PlayerIds :
             /\ ( Replied(u, "battle_start") /\ user_data'[u].in_battle )
                => LET b == user_data'[u].battle[1]
                   IN /\ b.enemy = EnemyOrBoss(b.e_id)
                      /\ b.e_hp = EnemyOrBoss(b.e_id).health
                      /\ b.phase = 1
             /\ Replied(u, "class_chosen")
                => player_states'[u].base_stats
                      = CLASSES[player_states'[u].class_name].base_stats]_vars

\* a second battle with the boss has started after a won one, with stats
\* that are no longer those of the class
C34_Witness ==
    \E u \in PlayerIds :
        /\ user_data[u].in_battle
        /\ user_data[u].battle[1].e_id = "ogre"
        /\ user_data[u].battle[1].phase = 1
        /\ player_states[u].kill_count["ogre"] >= 1
        /\ player_states[u].base_stats
              # CLASSES[player_states[u].class_name].base_stats

\* one user who walks through every mode: story, events, shop, inventory,
\* teleport and the battles met on the way
ModeUpdates ==
    {START} \cup {Text(t) : t \in ClassLabels \cup {CHOOSE_CLASS}}
    \cup {Text(ActionLabel(a)) : a \in {"Story", "Events", "Shop"}}
    \cup {Text(t) : t \in {INVENTORY, TELEPORT, SELL_ITEMS, BACK, CONTINUE,
                           MORE_EVENTS, RETURN_TO_TOWN, ATTACK, FLEE}}

NextModes ==
    \/ \E upd \in ModeUpdates : Deliver(1, upd)
    \/ Wake

SpecModes == Init /\ [][NextModes]_vars

\* the modes of user_data other than battle that are flagged
FlaggedModes(ud) ==
    {m \in {"story", "random_event", "shop", "inventory", "city_teleport"} :
        \/ m = "story" /\ ud.in_story
        \/ m = "random_event" /\ ud.in_random_event
        \/ m = "shop" /\ (ud.in_shop \/ ud.in_shop_sell)
        \/ m = "inventory" /\ ud.in_inventory
        \/ m = "city_teleport" /\ ud.in_city_teleport}

\* C35: between events at most one of the modes story, random event, shop,
\* inventory and city teleport is flagged; battle is flagged together with
\* another mode only if that mode is story or random event.
C35_OneModeAtATime ==
    \A u \in DOMAIN user_data :
        suspended = <<>>
        => /\ Cardinality(FlaggedModes(user_data[u])) <= 1
           /\ user_data[u].in_battle
                => FlaggedModes(user_data[u]) \subseteq {"story", "random_event"}

\* a battle started by an event chain is in progress
C35_Witness ==
    \E u \in DOMAIN user_data :
        /\ suspended = <<>>
        /\ user_data[u].in_battle
        /\ FlaggedModes(user_data[u]) = {"random_event"}
        /\ user_data[u].in_battle_from_event

\* one user who plays the village storyline, again and again
StoryUpdates ==
    {START} \cup {Text(t) : t \in ClassLabels \cup {CHOOSE_CLASS}}
    \cup {Text(ActionLabel(a)) : a \in {"Story", "GoForest", "Trail"}}
    \cup {Text(t) : t \in {CONTINUE, RETURN_TO_TOWN, ATTACK, FLEE}}

NextStory ==
    \/ \E upd \in StoryUpdates : Deliver(1, upd)
    \/ Wake

SpecStory == Init /\ [][NextStory]_vars

\* the scenes of type location of a city's storyline
LocationScenes(city) ==
    {STORY[StoryKey(city)][i].id : i \in {j \in 1..Len(STORY[StoryKey(city)]) :
                                            STORY[StoryKey(city)][j].type = "location"}}

\* C36: the rewards and the city unlock of a story scene of type location are
\* applied at most once per player and scene: once the scene is recorded as
\* progress, entering the storyline again grants nothing.
C36_SceneRewardOnce ==
    [][\A u \in PlayerIds : \A city \in StoryCities :
          LET p == player_states[u]
              p2 == player_states'[u]
          IN ( /\ Replied(u, "story_text")
               /\ p.story_progress[city] \in LocationScenes(city) )
             => /\ p2.inventory = p.inventory
                /\ p2.gold = p.gold
                /\ p2.experience = p.experience
                /\ p2.unlocked_cities = p.unlocked_cities]_vars

\* the last scene of a city's storyline
FinalScene(city) == STORY[StoryKey(city)][Len(STORY[StoryKey(city)])]

\* C37: a storyline whose final scene is a battle is reported complete by
\* has_completed_story only once that battle has been won: it becomes
\* complete in no step other than the Victory in its final scene, so not when
\* the battle starts, nor when the player flees or is defeated in it.
C37_CompleteAfterFinalBattle ==
    [][\A u \in PlayerIds : \A city \in StoryCities :
          LET p == player_states[u]
              p2 == player_states'[u]
              ud == user_data[u]
          IN ( /\ FinalScene(city).type = "battle"
               /\ ~has_completed_story(p, city)
               /\ has_completed_story(p2, city) )
             => /\ WonBattle(u)
                /\ ud.in_story /\ ud.current_story # <<>>
                /\ ud.current_story[1].city = city
                /\ ud.current_story[1].current_scene = FinalScene(city).id]_vars

\* the health that equipped artifacts and active effects add to the base health
HealthBonus(p) == get_total_stats(p).health - p.base_stats.health

\* C38: the value written back to base_stats.health after an enemy turn is the
\* battle's player health without the health bonus H of equipped artifacts and
\* active effects, so the bonus is never accumulated into the base health.
C38_BaseHealthWithoutBonus ==
    [][\A u \in PlayerIds :
          LET p == player_states[u]
              p2 == player_states'[u]
          IN ( /\ Replied(u, "enemy_hits")
               /\ user_data[u].in_battle
               /\ user_data'[u].in_battle )
             => p2.base_stats.health = user_data'[u].battle[1].p_hp - HealthBonus(p)]_vars

\* C39: whenever the session is in battle mode between two events, the battle
\* snapshot has enemy health > 0 and player health > 0: an enemy brought to
\* <= 0 is replaced by its next phase or the battle ends in Victory, a player
\* brought to <= 0 is defeated.
C39_BothAliveInBattle ==
    \A u \in DOMAIN user_data :
        user_data[u].in_battle
        => /\ user_data[u].battle # <<>>
           /\ user_data[u].battle[1].e_hp > 0
           /\ user_data[u].battle[1].p_hp > 0

\* the battle goes on after the enemy's first death, in its second phase
C39_Witness ==
    \E u \in PlayerIds :
        /\ user_data[u].in_battle
        /\ user_data[u].battle[1].phase = 2
        /\ replies.uid = u
        /\ replies.out # <<>> /\ replies.out[Len(replies.out)] = "phase"
====
